---- MODULE Spec2Model ----
(***************************************************************************)
(* Model of the octothorpe event-timeline engine: the Loopable trait,      *)
(* Pattern::length and Phrase::get_pattern_ranges (src/src/loopable.rs),   *)
(* Instrument::starting_notes and Instrument::output_midi                  *)
(* (src/src/instrument.rs) and the process cycle with its conversions      *)
(* between frames and ticks (src/src/cycle.rs).                            *)
(*                                                                         *)
(* Vec<T> is a TLA+ sequence (1-based), Option<u32> is a tick or None,     *)
(* Range<u32> is a record [start, end] (half-open).  A Rust panic is the   *)
(* flag `panicked`: once set, the process runs no further operation.       *)
(***************************************************************************)
EXTENDS Integers, Sequences, FiniteSets, Bags, TLC

VARIABLES
    events,     \* Loopable::events(): the Vec of events of one timeline
    panicked,   \* TRUE once an operation has panicked
    last,       \* the last operation: its name, row, range, returned event,
                \* and what add_complete_event removed and split
    phrase,     \* Instrument::phrases[phrase_index]: length and pattern_events
    patterns,   \* Instrument::patterns: pattern index -> Vec of note events
    query,      \* the arguments of the last Instrument::starting_notes call,
                \* and whether it is the first call or a later one
    notes,      \* the Vec<PlayingNoteEvent> it returned
    playing_notes,  \* Instrument::playing_notes: the sounding notes
    cycle,      \* the ProcessCycle of the last process callback
    messages,   \* the Vec<TimedMessage> output_midi built in that cycle
    written,    \* the messages the MIDI port wrote for that cycle's buffer
    pattern_ranges, \* the Vec the last Phrase::get_pattern_ranges call returned
    transport,  \* the transport position: frame, frame_rate, beats_per_minute
    trip,       \* the last conversion of a buffer frame to a tick and back
    tiling,     \* the tick range covered by the consecutive starting_notes
                \* calls so far, and all the notes they returned
    length_call,    \* the last Pattern::length call on 32-bit ticks: the
                    \* pattern's note event and how the call ended
    sequencer,  \* the Sequencer: the playing, queued and viewed sequence,
                \* the overview, the shift key, which sequences have phrases
    buttons,    \* the controller's Buttons: the pressed-button records, the
                \* buttons that are down, the last event and what press returned
    playable    \* a Playable: minimum_ticks, ticks, zoom, offset, and what
                \* the last change_ call was given and returned

vars == <<events, panicked, last, phrase, patterns, query, notes,
          playing_notes, cycle, messages, written,
          pattern_ranges, transport, trip, tiling, length_call, sequencer,
          buttons, playable>>

timelineVars == <<events, panicked, last>>
outputVars == <<playing_notes, cycle, messages, written>>
queryVars == <<pattern_ranges, transport, trip>>
controlVars == <<length_call, sequencer, buttons, playable>>
instrumentVars ==
    <<phrase, patterns, query, notes, outputVars, queryVars, tiling,
      controlVars>>

----------------------------------------------------------------------------
(* Bounds *)

MaxTick == 3        \* ticks of the timeline model are 0 .. MaxTick
MaxEvents == 3      \* the timeline model stores at most this many events

PhraseLength == 3   \* the length of the phrase of the instrument model
MaxWindow == 2      \* the longest window (in ticks) a starting_notes query spans

NFrames == 4        \* the frames of one process buffer (ProcessScope::n_frames)
MaxPlaying == 2     \* the output model holds at most this many sounding notes
MaxPatternEvents == 2   \* the phrase of the set_length model holds at most
                        \* this many pattern events
MaxPressed == 3     \* Buttons holds at most this many pressed-button records

\* stands for u32::MAX, the result of casting an infinite f64 to u32
FrameMax == 2147483647

Ticks == 0 .. MaxTick
Rows == {0, 1}
Payloads == {0}

\* Option::None for an Option<u32>
None == -1

\* The length of the timeline the Loopable operations act on (a Phrase's
\* fixed length, Loopable::length()): every tick of the model lies inside it.
TimelineLength == MaxTick

----------------------------------------------------------------------------
(* Events: {start, stop: Option, row, payload} *)

Event(start, stop, row, payload) ==
    [start |-> start, stop |-> stop, row |-> row, payload |-> payload]

NoEvent == Event(None, None, None, None)

OpenEvents == { Event(s, None, r, p) : s \in Ticks, r \in Rows, p \in Payloads }

CompleteEvents ==
    { e \in [start : Ticks, stop : Ticks, row : Rows, payload : Payloads] :
        e.start < e.stop }

Range(start, end) == [start |-> start, end |-> end]

NoRange == Range(None, None)

Ranges == { r \in [start : Ticks, end : Ticks] : r.start < r.end }

\* Range<u32>::contains
range_contains(range, tick) == range.start <= tick /\ tick < range.end

is_on_row(event, index) == event.row = index

is_on_same_row(event, other) == event.row = other.row

is_looping(event) == event.stop # None /\ event.stop <= event.start

\* LoopableEvent::contains: is `other` fully contained in the extent of
\* `event`, a looping extent being [start, length) followed by [0, stop)
contains(event, other, length) ==
    IF event.stop = None \/ other.stop = None THEN FALSE
    ELSE IF is_looping(event) = is_looping(other)
         THEN event.start <= other.start /\ other.stop <= event.stop
    ELSE IF is_looping(event)
         THEN event.start <= other.start \/ other.stop <= event.stop
    ELSE event.start = 0 /\ event.stop = length

\* LoopableEvent::resize_to_fit: truncate the side of `self` that `event`
\* overlaps; when `event` splits `self` in two, keep the leading piece in
\* place and return the trailing piece
resize_to_fit(self, event, length) ==
    IF self.stop = None \/ event.stop = None
    THEN [self |-> self, split |-> NoEvent]
    ELSE IF self.start < event.start /\ self.stop > event.stop
    THEN [self |-> [self EXCEPT !.stop = event.start],
          split |-> [self EXCEPT !.start = event.stop]]
    ELSE IF self.start < event.start /\ self.stop > event.start
    THEN [self |-> [self EXCEPT !.stop = event.start], split |-> NoEvent]
    ELSE IF self.start >= event.start /\ self.start < event.stop
            /\ self.stop > event.stop
    THEN [self |-> [self EXCEPT !.start = event.stop], split |-> NoEvent]
    ELSE [self |-> self, split |-> NoEvent]

----------------------------------------------------------------------------
(* Vec helpers *)

\* Vec::retain / Iterator::filter
Filter(seq, keep(_)) == SelectSeq(seq, keep)

\* the ascending indexes of the elements that satisfy `test`
Indexes(seq, test(_)) ==
    LET idx == { i \in 1 .. Len(seq) : test(seq[i]) }
        RECURSIVE Asc(_)
        Asc(S) == IF S = {} THEN <<>>
                  ELSE LET m == CHOOSE x \in S : \A y \in S : x <= y
                       IN <<m>> \o Asc(S \ {m})
    IN Asc(idx)

\* Vec::remove(index): the elements after it shift left
VecRemove(seq, i) == SubSeq(seq, 1, i - 1) \o SubSeq(seq, i + 1, Len(seq))

\* Vec::swap_remove(index): the last element takes the place of the removed
VecSwapRemove(seq, i) ==
    IF i = Len(seq) THEN SubSeq(seq, 1, Len(seq) - 1)
    ELSE [ j \in 1 .. Len(seq) - 1 |-> IF j = i THEN seq[Len(seq)] ELSE seq[j] ]

\* the events of a Vec as a multiset
BagOf(seq) ==
    LET S == { seq[i] : i \in 1 .. Len(seq) }
    IN [ e \in S |-> Cardinality({ i \in 1 .. Len(seq) : seq[i] = e }) ]

----------------------------------------------------------------------------
(* Loopable operations, as functions of the Vec of events *)

\* Loopable::try_add_starting_event
try_add_starting_event(evs, event) ==
    LET on_row == Filter(evs, LAMBDA other : is_on_same_row(other, event))
    IN IF on_row # <<>> /\ on_row[Len(on_row)].stop = None
       THEN evs
       ELSE Append(evs, event)

\* Loopable::get_last_event_on_row: .last().unwrap() panics when the row
\* holds no event; otherwise the last event of the row is swap_removed
get_last_event_on_row(evs, index) ==
    LET on_row == Indexes(evs, LAMBDA event : is_on_row(event, index))
    IN IF on_row = <<>>
       THEN [events |-> evs, ret |-> NoEvent, panicked |-> TRUE]
       ELSE LET i == on_row[Len(on_row)]
            IN [events |-> VecSwapRemove(evs, i), ret |-> evs[i],
                panicked |-> FALSE]

\* the in-place resize pass of add_complete_event: every same-row event is
\* resized, the trailing pieces of split events are collected in order
RECURSIVE resize_pass(_, _, _)
resize_pass(evs, event, length) ==
    IF evs = <<>> THEN [events |-> <<>>, split_events |-> <<>>]
    ELSE LET other == Head(evs)
             rest == resize_pass(Tail(evs), event, length)
         IN IF is_on_same_row(other, event)
            THEN LET r == resize_to_fit(other, event, length)
                 IN [events |-> <<r.self>> \o rest.events,
                     split_events |->
                        (IF r.split = NoEvent THEN <<>> ELSE <<r.split>>)
                        \o rest.split_events]
            ELSE [events |-> <<other>> \o rest.events,
                  split_events |-> rest.split_events]

\* the events add_complete_event removes as contained in the new event
contained_events(evs, event, length) ==
    Filter(evs, LAMBDA other :
        is_on_same_row(event, other) /\ contains(event, other, length))

\* the number of stored events add_complete_event splits in two
split_count(evs, event, length) ==
    LET retained == Filter(evs, LAMBDA other :
                        ~ is_on_same_row(event, other)
                        \/ ~ contains(event, other, length))
    IN Len(resize_pass(retained, event, length).split_events)

\* add_complete_event without the resize pass
add_complete_event_no_resize(evs, event, length) ==
    LET retained == Filter(evs, LAMBDA other :
                        ~ is_on_same_row(event, other)
                        \/ ~ contains(event, other, length))
    IN Append(retained, event)

\* add_complete_event that forgets the trailing pieces of split events
add_complete_event_drop_split(evs, event, length) ==
    LET retained == Filter(evs, LAMBDA other :
                        ~ is_on_same_row(event, other)
                        \/ ~ contains(event, other, length))
        resized == resize_pass(retained, event, length)
    IN Append(resized.events, event)

\* add_complete_event without the retain pass
add_complete_event_no_retain(evs, event, length) ==
    LET resized == resize_pass(evs, event, length)
    IN Append(resized.events \o resized.split_events, event)

\* add_complete_event whose retain pass keeps an event equal to the new one
add_complete_event_keep_equal(evs, event, length) ==
    LET retained == Filter(evs, LAMBDA other :
                        ~ is_on_same_row(event, other)
                        \/ ~ contains(event, other, length)
                        \/ other = event)
        resized == resize_pass(retained, event, length)
    IN Append(resized.events \o resized.split_events, event)

\* Loopable::add_complete_event
add_complete_event(evs, event, length) ==
    LET retained == Filter(evs, LAMBDA other :
                        ~ is_on_same_row(event, other)
                        \/ ~ contains(event, other, length))
        resized == resize_pass(retained, event, length)
    IN Append(resized.events \o resized.split_events, event)

\* Loopable::contains_events_starting_in
contains_events_starting_in(evs, range, index) ==
    \E i \in 1 .. Len(evs) :
        is_on_row(evs[i], index) /\ range_contains(range, evs[i].start)

\* the removal loop of remove_events_starting_in: Vec::remove of each
\* collected index in turn; Vec::remove panics on an index past the end
RECURSIVE remove_each(_, _)
remove_each(evs, indexes) ==
    IF indexes = <<>> THEN [events |-> evs, panicked |-> FALSE]
    ELSE IF Head(indexes) > Len(evs) THEN [events |-> evs, panicked |-> TRUE]
    ELSE remove_each(VecRemove(evs, Head(indexes)), Tail(indexes))

\* Loopable::remove_events_starting_in
remove_events_starting_in(evs, range, index) ==
    LET indexes == Indexes(evs, LAMBDA event :
                        is_on_row(event, index)
                        /\ range_contains(range, event.start))
    IN remove_each(evs, indexes)

\* Loopable::clear_events
clear_events(evs) == <<>>

----------------------------------------------------------------------------
(* Instrument::starting_notes *)

\* the pattern slots of the instrument model (Instrument::patterns has 5)
PatternIds == {0, 1}

\* LoopableEvent::length: the extent of an event inside its container
event_length(event, container_length) ==
    IF is_looping(event) THEN event.stop + container_length - event.start
    ELSE event.stop - event.start

PlayingNoteEvent(start, stop, note, start_velocity, stop_velocity) ==
    [start |-> start, stop |-> stop, note |-> note,
     start_velocity |-> start_velocity, stop_velocity |-> stop_velocity]

\* Iterator::flat_map over a Vec
RECURSIVE Flatten(_)
Flatten(seqs) == IF seqs = <<>> THEN <<>> ELSE Head(seqs) \o Flatten(Tail(seqs))

\* the active ranges of one pattern event: (range, note_offset, event); a
\* looping event yields its leading and its trailing range
pattern_event_ranges(pattern_event, length) ==
    IF is_looping(pattern_event)
    THEN LET offset == length - pattern_event.stop
         IN << [range |-> Range(0, pattern_event.stop), offset |-> offset,
                pattern_event |-> pattern_event],
               [range |-> Range(pattern_event.start, length), offset |-> 0,
                pattern_event |-> pattern_event] >>
    ELSE << [range |-> Range(pattern_event.start, pattern_event.stop),
             offset |-> 0, pattern_event |-> pattern_event] >>

\* "Check if range overlaps with phrase range": both comparisons are made
\* against phrase_stop_tick
range_overlaps(pattern_range, phrase_start_tick, phrase_stop_tick) ==
    pattern_range.start < phrase_stop_tick /\ pattern_range.end > phrase_stop_tick

\* the filter_map closure: the PlayingNoteEvent of one closed note event for
\* one active range, as a Vec of zero or one element; `ticks` is the range
\* phrase_start_tick .. phrase_stop_tick
playing_note(note_event, seg, ticks, sequence_start, iteration, length) ==
    LET note_start_tick == ticks.start + seg.offset
        note_stop_tick == ticks.end + seg.offset
    IN IF range_contains(Range(note_start_tick, note_stop_tick),
                         note_event.start + seg.range.start)
       THEN LET base_tick == sequence_start + iteration * length
                stop == IF is_looping(note_event)
                        THEN note_event.stop
                                + event_length(seg.pattern_event, length)
                        ELSE note_event.stop
            IN << PlayingNoteEvent(
                    base_tick + note_event.start + seg.range.start - seg.offset,
                    base_tick + stop + seg.range.start - seg.offset,
                    note_event.row, note_event.payload, note_event.payload) >>
       ELSE <<>>

\* the window mapping that keeps a phrase_stop_tick of 0
phrase_window_unwrapped(range, sequence_start, length) ==
    [phrase_start_tick |-> (range.start - sequence_start) % length,
     iteration |-> (range.start - sequence_start) \div length,
     phrase_stop_tick |-> (range.end - sequence_start) % length]

\* the head of starting_notes: the absolute tick range of a cycle as a
\* phrase-local window and the iteration of the phrase it falls in; a
\* local stop of 0 stands for the phrase end
phrase_window(range, sequence_start, length) ==
    LET stop_tick == (range.end - sequence_start) % length
    IN [phrase_start_tick |-> (range.start - sequence_start) % length,
        iteration |-> (range.start - sequence_start) \div length,
        phrase_stop_tick |-> IF stop_tick = 0 THEN length ELSE stop_tick]

\* starting_notes without the filter on stop().is_some()
starting_notes_with_open(phr, pats, range, sequence_start) ==
    LET length == phr.length
        window == phrase_window(range, sequence_start, length)
        phrase_start_tick == window.phrase_start_tick
        iteration == window.iteration
        phrase_stop_tick == window.phrase_stop_tick
        segs == Flatten([ i \in 1 .. Len(phr.pattern_events) |->
                    pattern_event_ranges(phr.pattern_events[i], length) ])
        active == Filter(segs, LAMBDA seg :
                    range_overlaps(seg.range, phrase_start_tick,
                                   phrase_stop_tick))
        notes_of(seg) ==
            LET all == pats[seg.pattern_event.row]
            IN Flatten([ k \in 1 .. Len(all) |->
                    playing_note(all[k], seg,
                                 Range(phrase_start_tick, phrase_stop_tick),
                                 sequence_start, iteration, length) ])
    IN Flatten([ i \in 1 .. Len(active) |-> notes_of(active[i]) ])

\* Instrument::starting_notes
starting_notes(phr, pats, range, sequence_start) ==
    LET length == phr.length
        window == phrase_window(range, sequence_start, length)
        phrase_start_tick == window.phrase_start_tick
        iteration == window.iteration
        phrase_stop_tick == window.phrase_stop_tick
        segs == Flatten([ i \in 1 .. Len(phr.pattern_events) |->
                    pattern_event_ranges(phr.pattern_events[i], length) ])
        active == Filter(segs, LAMBDA seg :
                    range_overlaps(seg.range, phrase_start_tick,
                                   phrase_stop_tick))
        notes_of(seg) ==
            LET closed == Filter(pats[seg.pattern_event.row],
                                 LAMBDA note_event : note_event.stop # None)
            IN Flatten([ k \in 1 .. Len(closed) |->
                    playing_note(closed[k], seg,
                                 Range(phrase_start_tick, phrase_stop_tick),
                                 sequence_start, iteration, length) ])
    IN Flatten([ i \in 1 .. Len(active) |-> notes_of(active[i]) ])

NoQuery == [range |-> NoRange, sequence_start |-> None, nth |-> 0]

\* no process callback has run yet
NoCycle == [tick_range |-> NoRange, is_rolling |-> FALSE]

\* no transport was queried yet, no frame was converted yet
NoTransport == [frame |-> None, frame_rate |-> None, beats_per_minute |-> None]

NoTrip == [frame |-> None, tick |-> None, back |-> None]

\* no starting_notes call was made yet
NoTiling == [range |-> NoRange, started |-> <<>>]

\* the sequences of the Sequencer: [Sequence; 4]
Sequences == 0 .. 3

\* Sequencer::new: sequence 0 plays and is queued, the instrument overview
\* is shown, no key is held; Sequence::default and
\* Sequence::alternate_default have phrases, the other two have none
sequencer_new ==
    [sequence_playing |-> 0, sequence_queued |-> 0, sequence |-> 0,
     overview |-> "Instrument", shift |-> FALSE,
     has_phrases |-> [index \in Sequences |-> index < 2]]

\* Buttons::new, with no button down and no event of the controller's
\* input seen yet
buttons_new ==
    [pressed |-> <<>>, held |-> {},
     event |-> [op |-> "none", tick |-> None, channel |-> None, note |-> None],
     is_double_pressed |-> FALSE]

\* TimebaseHandler::TICKS_PER_BEAT
TICKS_PER_BEAT == 1920

\* TimebaseHandler::BEATS_PER_BAR
BEATS_PER_BAR == 4

\* playable.rs: bars_to_ticks
bars_to_ticks(bars) == bars * BEATS_PER_BAR * TICKS_PER_BEAT

\* Playable::new, before any change_ call
playable_new(bars, minimum_bars) ==
    [minimum_ticks |-> bars_to_ticks(minimum_bars), ticks |-> bars_to_ticks(bars),
     zoom |-> 1, offset |-> 0,
     call |-> [op |-> "new", arg |-> None, ret |-> TRUE]]

\* no Pattern::length call on 32-bit ticks was made yet
NoLengthCall ==
    [start |-> [hi |-> None, lo |-> None], stop |-> [hi |-> None, lo |-> None],
     status |-> "none", length |-> [hi |-> None, lo |-> None]]

----------------------------------------------------------------------------
(* The timeline as a state machine: one action per Loopable operation *)

Op(op, row, range, ret, removed, split) ==
    [op |-> op, row |-> row, range |-> range, ret |-> ret,
     removed |-> removed, split |-> split]

Init ==
    /\ events = <<>>
    /\ panicked = FALSE
    /\ last = Op("new", None, NoRange, NoEvent, <<>>, 0)
    /\ phrase = [length |-> PhraseLength, pattern_events |-> <<>>]
    /\ patterns = [p \in PatternIds |-> <<>>]
    /\ query = NoQuery
    /\ notes = <<>>
    /\ playing_notes = <<>>
    /\ cycle = NoCycle
    /\ messages = <<>>
    /\ written = <<>>
    /\ pattern_ranges = <<>>
    /\ transport = NoTransport
    /\ trip = NoTrip
    /\ tiling = NoTiling
    /\ length_call = NoLengthCall
    /\ sequencer = sequencer_new
    /\ buttons = buttons_new
    /\ playable = playable_new(1, 1)

TryAddStartingEvent ==
    /\ ~ panicked
    /\ \E event \in OpenEvents :
        LET after == try_add_starting_event(events, event)
        IN /\ Len(after) <= MaxEvents
           /\ events' = after
           /\ last' = Op("try_add_starting_event", event.row, NoRange, NoEvent, <<>>, 0)
    /\ UNCHANGED <<panicked, instrumentVars>>

GetLastEventOnRow ==
    /\ ~ panicked
    /\ \E index \in Rows :
        LET r == get_last_event_on_row(events, index)
        IN /\ events' = r.events
           /\ panicked' = r.panicked
           /\ last' = Op("get_last_event_on_row", index, NoRange, r.ret, <<>>, 0)
    /\ UNCHANGED instrumentVars

AddCompleteEvent ==
    /\ ~ panicked
    /\ \E event \in CompleteEvents :
        LET after == add_complete_event(events, event, TimelineLength)
        IN /\ Len(after) <= MaxEvents
           /\ events' = after
           /\ last' = Op("add_complete_event", event.row, NoRange, NoEvent,
                         contained_events(events, event, TimelineLength),
                         split_count(events, event, TimelineLength))
    /\ UNCHANGED <<panicked, instrumentVars>>

RemoveEventsStartingIn ==
    /\ ~ panicked
    /\ \E range \in Ranges, index \in Rows :
        LET r == remove_events_starting_in(events, range, index)
        IN /\ events' = r.events
           /\ panicked' = r.panicked
           /\ last' = Op("remove_events_starting_in", index, range, NoEvent, <<>>, 0)
    /\ UNCHANGED instrumentVars

ClearEvents ==
    /\ ~ panicked
    /\ events # <<>>
    /\ events' = clear_events(events)
    /\ last' = Op("clear_events", None, NoRange, NoEvent, <<>>, 0)
    /\ UNCHANGED <<panicked, instrumentVars>>

Next ==
    \/ TryAddStartingEvent
    \/ GetLastEventOnRow
    \/ AddCompleteEvent
    \/ RemoveEventsStartingIn
    \/ ClearEvents

Spec == Init /\ [][Next]_vars

----------------------------------------------------------------------------
(* Pattern: a timeline of note events whose length follows its events *)

\* Pattern::minimum_length
minimum_length == TICKS_PER_BEAT * 4

\* the maximum tick a pattern contains: the largest start, or the largest
\* stop of a closed event if that is larger; None for an empty pattern
max_tick(note_events) ==
    IF note_events = <<>> THEN None
    ELSE LET starts == { note_events[i].start : i \in 1 .. Len(note_events) }
             stops == { note_events[i].stop : i \in { k \in 1 .. Len(note_events) :
                                                        note_events[k].stop # None } }
             max_start == CHOOSE t \in starts : \A u \in starts : u <= t
         IN IF stops = {} THEN max_start
            ELSE LET max_stop == CHOOSE t \in stops : \A u \in stops : u <= t
                 IN IF max_stop > max_start THEN max_stop ELSE max_start

\* a loop that doubles only when an event reaches to the whole length
RECURSIVE double_past_length(_, _)
double_past_length(length, tick) ==
    IF length <= tick THEN double_past_length(length * 2, tick) ELSE length

\* the loop `while length / 2 < tick { length = length * 2 }`
RECURSIVE double_until(_, _)
double_until(length, tick) ==
    IF length \div 2 < tick THEN double_until(length * 2, tick) ELSE length

\* a length that is the maximum tick itself once that is past the minimum
pattern_length_max_tick(note_events) ==
    LET tick == max_tick(note_events)
    IN IF tick # None /\ tick > minimum_length THEN tick ELSE minimum_length

\* a length that exceeds the maximum tick, whatever its half
pattern_length_past_tick(note_events) ==
    LET tick == max_tick(note_events)
    IN IF tick = None THEN minimum_length
       ELSE double_past_length(minimum_length, tick)

\* Pattern::length
pattern_length(note_events) ==
    LET tick == max_tick(note_events)
    IN IF tick = None THEN minimum_length
       ELSE double_until(minimum_length, tick)

\* the ticks of the pattern model: around a half, the whole of the minimum
\* length, and 8000
PatternTicks ==
    {0, minimum_length \div 2, minimum_length \div 2 + 10,
     minimum_length, minimum_length + 10, 8000}

\* the note events of the pattern model, all of one key
PatternOpenEvents == { Event(s, None, 0, 0) : s \in PatternTicks }

PatternCompleteEvents ==
    { e \in [start : PatternTicks, stop : PatternTicks, row : {0},
             payload : Payloads] : e.start < e.stop }

PatternRanges ==
    { r \in [start : PatternTicks, end : PatternTicks] : r.start < r.end }

PatternTryAddStartingEvent ==
    /\ ~ panicked
    /\ \E event \in PatternOpenEvents :
        LET after == try_add_starting_event(events, event)
        IN /\ Len(after) <= MaxEvents
           /\ events' = after
           /\ last' = Op("try_add_starting_event", event.row, NoRange, NoEvent, <<>>, 0)
    /\ UNCHANGED <<panicked, instrumentVars>>

PatternGetLastEventOnRow ==
    /\ ~ panicked
    /\ LET r == get_last_event_on_row(events, 0)
       IN /\ events' = r.events
          /\ panicked' = r.panicked
          /\ last' = Op("get_last_event_on_row", 0, NoRange, r.ret, <<>>, 0)
    /\ UNCHANGED instrumentVars

PatternAddCompleteEvent ==
    /\ ~ panicked
    /\ \E event \in PatternCompleteEvents :
        LET length == pattern_length(events)
            after == add_complete_event(events, event, length)
        IN /\ Len(after) <= MaxEvents
           /\ events' = after
           /\ last' = Op("add_complete_event", event.row, NoRange, NoEvent,
                         contained_events(events, event, length),
                         split_count(events, event, length))
    /\ UNCHANGED <<panicked, instrumentVars>>

PatternRemoveEventsStartingIn ==
    /\ ~ panicked
    /\ \E range \in PatternRanges :
        LET r == remove_events_starting_in(events, range, 0)
        IN /\ events' = r.events
           /\ panicked' = r.panicked
           /\ last' = Op("remove_events_starting_in", 0, range, NoEvent, <<>>, 0)
    /\ UNCHANGED instrumentVars

NextPattern ==
    \/ PatternTryAddStartingEvent
    \/ PatternGetLastEventOnRow
    \/ PatternAddCompleteEvent
    \/ PatternRemoveEventsStartingIn
    \/ ClearEvents

\* Pattern::new: no note events
SpecPattern == Init /\ [][NextPattern]_vars

----------------------------------------------------------------------------
(* Pattern::length on 32-bit ticks *)

\* a u32 as its two 16-bit halves, hi * 2^16 + lo, so that the arithmetic
\* of the loop keeps its width
Half16 == 65536

U32(hi, lo) == [hi |-> hi, lo |-> lo]

\* Option::None for an Option<u32> of two halves
None32 == U32(None, None)

u32_lt(a, b) == a.hi < b.hi \/ (a.hi = b.hi /\ a.lo < b.lo)

u32_max(a, b) == IF u32_lt(a, b) THEN b ELSE a

\* length / 2
u32_half(a) == U32(a.hi \div 2, (a.lo \div 2) + (a.hi % 2) * (Half16 \div 2))

\* length * 2 does not fit 32 bits
u32_double_overflows(a) == 2 * a.hi + ((2 * a.lo) \div Half16) >= Half16

\* length * 2, wrapped to 32 bits
u32_double(a) ==
    U32((2 * a.hi + ((2 * a.lo) \div Half16)) % Half16, (2 * a.lo) % Half16)

\* Pattern::minimum_length as a u32
minimum_length32 == U32(0, minimum_length)

\* the doubling loop of Pattern::length on 32-bit values, and how it
\* ends.  A doubling that does not fit 32 bits panics in a build with
\* overflow checks and wraps in a build without them; a length that
\* wrapped to 0 stays 0, and the loop does not end
RECURSIVE double_until32(_, _, _)
double_until32(length, tick, overflow_checks) ==
    IF u32_lt(u32_half(length), tick)
    THEN IF length = U32(0, 0)
         THEN [status |-> "loops", length |-> length]
         ELSE IF u32_double_overflows(length) /\ overflow_checks
              THEN [status |-> "panicked", length |-> length]
              ELSE double_until32(u32_double(length), tick, overflow_checks)
    ELSE [status |-> "returned", length |-> length]

\* Pattern::length of a pattern with one note event, in either build:
\* max_tick is the larger of the event's start and stop, or its start if
\* it is open
pattern_length32(note_event) ==
    LET tick == IF note_event.stop = None32 THEN note_event.start
                ELSE u32_max(note_event.start, note_event.stop)
    IN { double_until32(minimum_length32, tick, overflow_checks) :
            overflow_checks \in BOOLEAN }

\* ticks around the minimum length, around the largest tick whose length
\* fits 32 bits (7680 * 2^18 = 30720 * 2^16), and up to u32::MAX
Ticks32 ==
    { U32(hi, lo) : hi \in {0, 1, 30720, 65535}, lo \in {0, 1, 3841, 65535} }

NoteEvents32 == [start : Ticks32, stop : Ticks32 \cup {None32}]

\* Pattern::length is called on a pattern that holds one note event
PatternLength32 ==
    /\ \E note_event \in NoteEvents32 :
       \E outcome \in pattern_length32(note_event) :
          length_call' = [start |-> note_event.start, stop |-> note_event.stop,
                          status |-> outcome.status, length |-> outcome.length]
    /\ UNCHANGED <<timelineVars, phrase, patterns, query, notes, outputVars,
                   queryVars, tiling, sequencer, buttons, playable>>

NextLength32 == PatternLength32

SpecLength32 == Init /\ [][NextLength32]_vars

----------------------------------------------------------------------------
(* Phrase: a timeline of pattern events with a length that is set *)

\* Phrase::default_length: 4 bars
default_length == TICKS_PER_BEAT * 4 * 4

\* Phrase::new
phrase_new == [length |-> default_length, pattern_events |-> <<>>]

\* a set_length that stores the length and leaves the events alone
set_length_uncut(phr, length) ==
    [length |-> length, pattern_events |-> phr.pattern_events]

\* Phrase::set_length: a closed event that stops past the new length gets
\* the length as its stop
set_length(phr, length) ==
    [length |-> length,
     pattern_events |->
        [ i \in 1 .. Len(phr.pattern_events) |->
            LET event == phr.pattern_events[i]
            IN IF event.stop # None /\ event.stop > length
               THEN [event EXCEPT !.stop = length]
               ELSE event ]]

\* the lengths a phrase is set to, and the pattern events it is given:
\* open ones and closed ones, the closed ones looping or not
PhraseLengths == (1 .. PhraseLength) \cup {default_length}

PhraseCompleteEvents ==
    { e \in [start : Ticks, stop : Ticks, row : Rows, payload : Payloads] :
        e.start # e.stop }

InitPhrase ==
    /\ events = <<>>
    /\ panicked = FALSE
    /\ last = Op("new", None, NoRange, NoEvent, <<>>, 0)
    /\ phrase = phrase_new
    /\ patterns = [p \in PatternIds |-> <<>>]
    /\ query = NoQuery
    /\ notes = <<>>
    /\ playing_notes = <<>>
    /\ cycle = NoCycle
    /\ messages = <<>>
    /\ written = <<>>
    /\ pattern_ranges = <<>>
    /\ transport = NoTransport
    /\ trip = NoTrip
    /\ tiling = NoTiling
    /\ length_call = NoLengthCall
    /\ sequencer = sequencer_new
    /\ buttons = buttons_new
    /\ playable = playable_new(1, 1)

PhraseTryAddStartingEvent ==
    /\ \E event \in OpenEvents :
        LET after == try_add_starting_event(phrase.pattern_events, event)
        IN /\ Len(after) <= MaxPatternEvents
           /\ phrase' = [phrase EXCEPT !.pattern_events = after]
           /\ last' = Op("try_add_starting_event", event.row, NoRange, NoEvent, <<>>, 0)
    /\ UNCHANGED <<events, panicked, controlVars, patterns, query, notes, outputVars,
                   queryVars, tiling>>

PhraseAddCompleteEvent ==
    /\ \E event \in PhraseCompleteEvents :
        LET after == add_complete_event(phrase.pattern_events, event,
                                        phrase.length)
        IN /\ Len(after) <= MaxPatternEvents
           /\ phrase' = [phrase EXCEPT !.pattern_events = after]
           /\ last' = Op("add_complete_event", event.row, NoRange, NoEvent, <<>>, 0)
    /\ UNCHANGED <<events, panicked, controlVars, patterns, query, notes, outputVars,
                   queryVars, tiling>>

\* set_length(length); `last` keeps the argument as the range 0 .. length
\* and, as `removed`, the events that stopped past it, as they were
SetLength ==
    /\ \E length \in PhraseLengths :
        /\ phrase' = set_length(phrase, length)
        /\ last' = Op("set_length", None, Range(0, length), NoEvent,
                      Filter(phrase.pattern_events, LAMBDA event :
                                event.stop # None /\ event.stop > length),
                      0)
    /\ UNCHANGED <<events, panicked, controlVars, patterns, query, notes, outputVars,
                   queryVars, tiling>>

NextPhrase ==
    \/ PhraseTryAddStartingEvent
    \/ PhraseAddCompleteEvent
    \/ SetLength

SpecPhrase == InitPhrase /\ [][NextPhrase]_vars

----------------------------------------------------------------------------
(* Sequencer: the playing sequence and the queued sequence *)

\* Sequence::ticks: the length of the longest phrase of the sequence, None
\* for a sequence without phrases; the phrases of the model all have the
\* default length
sequence_ticks(seq, index) ==
    IF seq.has_phrases[index] THEN default_length ELSE None

\* Sequencer::set_playing_sequence
set_playing_sequence(seq, index) ==
    [seq EXCEPT !.sequence_playing = index, !.sequence_queued = None]

\* a current_playing_sequences that adds the following sequence in every
\* cycle, whether or not the cycle crosses the end of the playing sequence
current_playing_sequences_every_cycle(seq, cyc) ==
    IF sequence_ticks(seq, seq.sequence_playing) # None
    THEN << seq.sequence_playing,
            IF seq.sequence_queued # None THEN seq.sequence_queued
            ELSE seq.sequence_playing >>
    ELSE <<>>

\* Sequencer::current_playing_sequences: Some(Vec) as the Vec, None as <<>>
current_playing_sequences(seq, cyc) ==
    LET seq_ticks == sequence_ticks(seq, seq.sequence_playing)
    IN IF seq_ticks # None
       THEN IF cyc.tick_range.start % seq_ticks > cyc.tick_range.end % seq_ticks
            THEN << seq.sequence_playing,
                    IF seq.sequence_queued # None THEN seq.sequence_queued
                    ELSE seq.sequence_playing >>
            ELSE << seq.sequence_playing >>
       ELSE <<>>

\* Sequencer::playing_sequences, as the Sequencer it leaves
playing_sequences(seq, cyc) ==
    LET sequences == current_playing_sequences(seq, cyc)
    IN IF sequences # <<>>
       THEN IF Len(sequences) > 1 /\ sequences[1] # sequences[2]
            THEN set_playing_sequence(seq, sequences[2])
            ELSE seq
       ELSE IF seq.sequence_queued # None
            THEN set_playing_sequence(seq, seq.sequence_queued)
            ELSE seq

\* Sequencer::switch_sequence
switch_sequence(seq, index) ==
    LET queued == IF seq.shift THEN [seq EXCEPT !.sequence_queued = index]
                  ELSE seq
    IN [queued EXCEPT !.overview = "Sequence", !.sequence = index]

\* the cycles of the sequencer model: tick ranges before, up to and across
\* the end of a phrase of the default length, rolling or not
SequencerCycles ==
    { [tick_range |-> Range(default_length - 10 + 5 * i,
                            default_length - 10 + 5 * (i + j)),
       is_rolling |-> b] : i \in 0 .. 2, j \in 0 .. 2, b \in BOOLEAN }

\* key_pressed and key_released of the shift key (note 0x62)
ShiftKey ==
    /\ sequencer' = [sequencer EXCEPT !.shift = ~ sequencer.shift]
    /\ last' = Op("shift_key", None, NoRange, NoEvent, <<>>, 0)
    /\ UNCHANGED <<events, panicked, phrase, patterns, query, notes,
                   outputVars, queryVars, tiling, length_call, buttons,
                   playable>>

\* key_pressed of a sequence key (notes 0x57 .. 0x5A)
SwitchSequence ==
    /\ \E index \in Sequences :
        /\ sequencer' = switch_sequence(sequencer, index)
        /\ last' = Op("switch_sequence", index, NoRange, NoEvent, <<>>, 0)
    /\ UNCHANGED <<events, panicked, phrase, patterns, query, notes,
                   outputVars, queryVars, tiling, length_call, buttons,
                   playable>>

\* key_pressed of a main grid key in the sequence overview: a phrase of
\* the viewed sequence is toggled, here its only one or its first one
TogglePhrase ==
    /\ sequencer.overview = "Sequence"
    /\ sequencer' =
          [sequencer EXCEPT !.has_phrases[sequencer.sequence] =
                                ~ sequencer.has_phrases[sequencer.sequence]]
    /\ last' = Op("toggle_phrase", sequencer.sequence, NoRange, NoEvent, <<>>, 0)
    /\ UNCHANGED <<events, panicked, phrase, patterns, query, notes,
                   outputVars, queryVars, tiling, length_call, buttons,
                   playable>>

\* Sequencer::output as far as the sequences go: while the transport rolls
\* the playing sequences are asked for
SequencerOutput ==
    /\ \E cyc \in SequencerCycles :
        /\ cycle' = cyc
        /\ sequencer' = IF cyc.is_rolling THEN playing_sequences(sequencer, cyc)
                         ELSE sequencer
    /\ last' = Op("output", None, NoRange, NoEvent, <<>>, 0)
    /\ UNCHANGED <<events, panicked, phrase, patterns, query, notes,
                   playing_notes, messages, written, queryVars, tiling,
                   length_call, buttons, playable>>

NextSequencer ==
    \/ ShiftKey
    \/ SwitchSequence
    \/ TogglePhrase
    \/ SequencerOutput

SpecSequencer == Init /\ [][NextSequencer]_vars

----------------------------------------------------------------------------
(* Buttons: the pressed-button records of the controller *)

\* Controller::DOUBLE_PRESS_TICKS
DOUBLE_PRESS_TICKS == TICKS_PER_BEAT \div 2

\* PressedButton::new
PressedButton(start, channel, note) ==
    [start |-> start, end |-> None, channel |-> channel, note |-> note]

\* Buttons::press, for a start that is not before the ends of the records:
\* the records that stay, the new record behind them, and
\* is_double_pressed, which every record the retain pass looks at
\* overwrites, so that the last record decides it
press(pressed, start, channel, note) ==
    LET falls_within_double_press_ticks(previous) ==
            previous.end = None \/ start - previous.end < DOUBLE_PRESS_TICKS
        is_same_button(previous) ==
            previous.channel = channel /\ previous.note = note
    IN [pressed |-> Filter(pressed, falls_within_double_press_ticks)
                        \o << PressedButton(start, channel, note) >>,
        is_double_pressed |->
            /\ pressed # <<>>
            /\ falls_within_double_press_ticks(pressed[Len(pressed)])
            /\ is_same_button(pressed[Len(pressed)])]

\* Buttons::release: the last record of the button gets the end tick; the
\* unwrap panics if there is no such record.  `channel` is the channel
\* byte of the release message, 16 below that of the press
release(pressed, end, channel, note) ==
    LET found == { i \in 1 .. Len(pressed) :
                     /\ pressed[i].channel - 16 = channel
                     /\ pressed[i].note = note }
    IN IF found = {}
       THEN [pressed |-> pressed, panicked |-> TRUE]
       ELSE LET i == CHOOSE i \in found : \A j \in found : j <= i
            IN [pressed |-> [pressed EXCEPT ![i].end = end],
                panicked |-> FALSE]

\* the buttons of the model, by the channel byte and the note of their
\* press messages (0x90, 0x91; 0x52, 0x53), and the ticks of their events:
\* half a beat is DOUBLE_PRESS_TICKS
ButtonSet == { [channel |-> 144, note |-> 82], [channel |-> 144, note |-> 83],
               [channel |-> 145, note |-> 82] }

ButtonTicks == {0, TICKS_PER_BEAT \div 4, TICKS_PER_BEAT \div 2, TICKS_PER_BEAT}

\* the controller starts with any of its buttons down
InitButtons ==
    /\ events = <<>>
    /\ panicked = FALSE
    /\ last = Op("new", None, NoRange, NoEvent, <<>>, 0)
    /\ phrase = [length |-> PhraseLength, pattern_events |-> <<>>]
    /\ patterns = [p \in PatternIds |-> <<>>]
    /\ query = NoQuery
    /\ notes = <<>>
    /\ playing_notes = <<>>
    /\ cycle = NoCycle
    /\ messages = <<>>
    /\ written = <<>>
    /\ pattern_ranges = <<>>
    /\ transport = NoTransport
    /\ trip = NoTrip
    /\ tiling = NoTiling
    /\ length_call = NoLengthCall
    /\ sequencer = sequencer_new
    /\ buttons \in { [buttons_new EXCEPT !.held = held] :
                        held \in SUBSET ButtonSet }
    /\ playable = playable_new(1, 1)

\* a note-on message of a button that is up: Controller::process calls
\* Buttons::press
ButtonPress ==
    /\ ~ panicked
    /\ \E button \in ButtonSet \ buttons.held, tick \in ButtonTicks :
        LET r == press(buttons.pressed, tick, button.channel, button.note)
        IN /\ buttons.event.tick <= tick
           /\ Len(r.pressed) <= MaxPressed
           /\ buttons' = [pressed |-> r.pressed,
                           held |-> buttons.held \cup {button},
                           event |-> [op |-> "press", tick |-> tick,
                                      channel |-> button.channel,
                                      note |-> button.note],
                           is_double_pressed |-> r.is_double_pressed]
    /\ UNCHANGED <<timelineVars, phrase, patterns, query, notes, outputVars,
                   queryVars, tiling, length_call, sequencer, playable>>

\* a note-off message of a button that is down: Controller::process calls
\* Buttons::release
ButtonRelease ==
    /\ ~ panicked
    /\ \E button \in buttons.held, tick \in ButtonTicks :
        LET r == release(buttons.pressed, tick, button.channel - 16, button.note)
        IN /\ buttons.event.tick <= tick
           /\ panicked' = r.panicked
           /\ buttons' = [buttons EXCEPT
                            !.pressed = r.pressed,
                            !.held = buttons.held \ {button},
                            !.event = [op |-> "release", tick |-> tick,
                                       channel |-> button.channel - 16,
                                       note |-> button.note]]
    /\ UNCHANGED <<events, last, phrase, patterns, query, notes, outputVars,
                   queryVars, tiling, length_call, sequencer, playable>>

NextButtons ==
    \/ ButtonPress
    \/ ButtonRelease

SpecButtons == InitButtons /\ [][NextButtons]_vars

----------------------------------------------------------------------------
(* Playable: the length of a pattern or phrase and the view of its grid *)

\* Playable::length_modifier
length_modifier(p) == p.ticks \div p.minimum_ticks

\* Playable::change_zoom
change_zoom(p, button) ==
    CASE button \in {1, 2, 4, 8} ->
            [p EXCEPT !.zoom = 8 \div button, !.offset = 0]
      [] button = 5 -> [p EXCEPT !.zoom = 2, !.offset = 1]
      [] button = 7 -> [p EXCEPT !.zoom = 4, !.offset = 3]
      [] button \in {3, 6} -> [p EXCEPT !.zoom = 8, !.offset = button - 1]
      [] OTHER -> p

\* Playable::change_offset: the playable afterwards and the value returned
change_offset(p, delta) ==
    LET offset == p.offset + delta
    IN IF offset >= 0 /\ offset <= p.zoom - 1
       THEN [playable |-> [p EXCEPT !.offset = offset], ret |-> TRUE]
       ELSE [playable |-> p, ret |-> FALSE]

\* Playable::change_length: the playable afterwards and the value returned
change_length(p, modifier) ==
    IF modifier \in {1, 2, 4, 8}
    THEN LET zoom == (p.zoom * modifier) \div length_modifier(p)
             longer == [p EXCEPT !.ticks = modifier * p.minimum_ticks]
         IN [playable |-> IF zoom > 0 /\ zoom <= 8
                          THEN [longer EXCEPT !.zoom = zoom]
                          ELSE longer,
             ret |-> TRUE]
    ELSE [playable |-> p, ret |-> FALSE]

\* the values the sequencer passes to change_zoom and change_length:
\* message.bytes[0] - 0x90 + 1 of a note-on message
PlayableButtons == 1 .. 16

\* a new playable of 1, 2, 4 or 8 times its minimum length of 1 or 2 bars
InitPlayable ==
    /\ events = <<>>
    /\ panicked = FALSE
    /\ last = Op("new", None, NoRange, NoEvent, <<>>, 0)
    /\ phrase = [length |-> PhraseLength, pattern_events |-> <<>>]
    /\ patterns = [p \in PatternIds |-> <<>>]
    /\ query = NoQuery
    /\ notes = <<>>
    /\ playing_notes = <<>>
    /\ cycle = NoCycle
    /\ messages = <<>>
    /\ written = <<>>
    /\ pattern_ranges = <<>>
    /\ transport = NoTransport
    /\ trip = NoTrip
    /\ tiling = NoTiling
    /\ length_call = NoLengthCall
    /\ sequencer = sequencer_new
    /\ buttons = buttons_new
    /\ \E minimum_bars \in {1, 2}, modifier \in {1, 2, 4, 8} :
            playable = playable_new(minimum_bars * modifier, minimum_bars)

ChangeZoom ==
    /\ \E button \in PlayableButtons :
            playable' = [change_zoom(playable, button) EXCEPT
                            !.call = [op |-> "change_zoom", arg |-> button,
                                      ret |-> TRUE]]
    /\ UNCHANGED <<timelineVars, phrase, patterns, query, notes, outputVars,
                   queryVars, tiling, length_call, sequencer, buttons>>

ChangeOffset ==
    /\ \E delta \in {-1, 1} :
        LET r == change_offset(playable, delta)
        IN playable' = [r.playable EXCEPT
                            !.call = [op |-> "change_offset", arg |-> delta,
                                      ret |-> r.ret]]
    /\ UNCHANGED <<timelineVars, phrase, patterns, query, notes, outputVars,
                   queryVars, tiling, length_call, sequencer, buttons>>

ChangeLength ==
    /\ \E modifier \in PlayableButtons :
        LET r == change_length(playable, modifier)
        IN playable' = [r.playable EXCEPT
                            !.call = [op |-> "change_length", arg |-> modifier,
                                      ret |-> r.ret]]
    /\ UNCHANGED <<timelineVars, phrase, patterns, query, notes, outputVars,
                   queryVars, tiling, length_call, sequencer, buttons>>

NextPlayable ==
    \/ ChangeZoom
    \/ ChangeOffset
    \/ ChangeLength

SpecPlayable == InitPlayable /\ [][NextPlayable]_vars

----------------------------------------------------------------------------
(* The instrument as a state machine: starting_notes queries on given timelines *)

\* the pattern events a phrase of the model may hold: row = pattern slot,
\* non-looping with start < stop, or looping with 0 < stop < start < length.
\* A stop may lie past the phrase length: add_complete_event does not clip
\* an event to Phrase::length ("we can draw after phrase length",
\* loopable.rs:115)
PatternEvents ==
    { e \in [start : 0 .. PhraseLength, stop : 1 .. PhraseLength + 1,
             row : PatternIds, payload : Payloads] :
        \/ e.start < e.stop
        \/ e.stop < e.start /\ e.start < PhraseLength }

PhraseInputs ==
    { [length |-> PhraseLength, pattern_events |-> evs] :
        evs \in {<<>>} \cup { <<a>> : a \in PatternEvents }
                \cup { pair \in PatternEvents \X PatternEvents :
                        pair[1].row < pair[2].row } }

\* the note events of one pattern of the model: nothing, one closed note of
\* one tick, an open note (key 1) beside a closed note of the same start tick
\* (key 0), or two closed notes
NoteVecs ==
    {<<>>}
    \cup { <<Event(s, s + 1, 0, 0)>> : s \in 0 .. PhraseLength - 1 }
    \cup { <<Event(0, None, 1, 0), Event(0, 1, 0, 0)>> }
    \cup { <<Event(0, 1, 0, 0), Event(1, PhraseLength, 1, 0)>> }

\* pattern 0 holds any of them, the other patterns nothing or one closed note
PatternInputs ==
    { pats \in [PatternIds -> NoteVecs] :
        \A p \in PatternIds \ {0} : pats[p] \in {<<>>, <<Event(1, 2, 0, 0)>>} }

\* the windows of the model: absolute ranges of at most MaxWindow ticks that
\* start at most two phrase lengths after sequence_start
SequenceStarts == {0, 1}

Windows ==
    { r \in [start : 0 .. 2 * PhraseLength + 1,
             end : 0 .. 2 * PhraseLength + 1 + MaxWindow] :
        r.start <= r.end /\ r.end - r.start <= MaxWindow }

InitNotes ==
    /\ events = <<>>
    /\ panicked = FALSE
    /\ last = Op("new", None, NoRange, NoEvent, <<>>, 0)
    /\ phrase \in PhraseInputs
    /\ patterns \in PatternInputs
    /\ query = NoQuery
    /\ notes = <<>>
    /\ playing_notes = <<>>
    /\ cycle = NoCycle
    /\ messages = <<>>
    /\ written = <<>>
    /\ pattern_ranges = <<>>
    /\ transport = NoTransport
    /\ trip = NoTrip
    /\ tiling = NoTiling
    /\ length_call = NoLengthCall
    /\ sequencer = sequencer_new
    /\ buttons = buttons_new
    /\ playable = playable_new(1, 1)

\* a starting_notes that hands out the Vec of the call before, if it held notes
StartingNotesCached ==
    /\ \E range \in Windows, sequence_start \in SequenceStarts :
        /\ sequence_start <= range.start
        /\ query' = [range |-> range, sequence_start |-> sequence_start,
                      nth |-> IF query = NoQuery THEN 1 ELSE 2]
        /\ notes' = IF notes # <<>> THEN notes
                     ELSE starting_notes(phrase, patterns, range, sequence_start)
    /\ UNCHANGED <<timelineVars, controlVars, tiling, phrase, patterns, outputVars, queryVars>>

StartingNotes ==
    /\ \E range \in Windows, sequence_start \in SequenceStarts :
        /\ sequence_start <= range.start
        /\ query' = [range |-> range, sequence_start |-> sequence_start,
                      nth |-> IF query = NoQuery THEN 1 ELSE 2]
        /\ notes' = starting_notes(phrase, patterns, range, sequence_start)
    /\ UNCHANGED <<timelineVars, controlVars, tiling, phrase, patterns, outputVars, queryVars>>

NextNotes == StartingNotes

SpecNotes == InitNotes /\ [][NextNotes]_vars

----------------------------------------------------------------------------
(* starting_notes over the windows of consecutive cycles *)

\* the window of the next cycle starts where the last window ended, with
\* the same sequence_start; the first window may start anywhere; every
\* window holds at least one tick
NextWindows ==
    { w \in [range : Windows, sequence_start : SequenceStarts] :
        /\ w.sequence_start <= w.range.start
        /\ w.range.start < w.range.end
        /\ tiling # NoTiling =>
              /\ w.range.start = tiling.range.end
              /\ w.sequence_start = query.sequence_start }

StartingNotesNext ==
    /\ \E w \in NextWindows :
        LET starting == starting_notes(phrase, patterns, w.range,
                                       w.sequence_start)
        IN /\ query' = [range |-> w.range, sequence_start |-> w.sequence_start,
                         nth |-> IF query = NoQuery THEN 1 ELSE 2]
           /\ notes' = starting
           /\ tiling' = [range |-> Range(IF tiling = NoTiling THEN w.range.start
                                         ELSE tiling.range.start, w.range.end),
                          started |-> tiling.started \o starting]
    /\ UNCHANGED <<timelineVars, controlVars, phrase, patterns, outputVars, queryVars>>

NextTiling == StartingNotesNext

SpecTiling == InitNotes /\ [][NextTiling]_vars

----------------------------------------------------------------------------
(* Phrase::get_pattern_ranges *)

\* LoopableEvent::overlaps_tick_range: the event is active on some tick of
\* [start, stop); a looping event is active on [event.start, length) and on
\* [0, event.stop)
overlaps_tick_range(event, start, stop) ==
    IF is_looping(event) THEN event.start < stop \/ event.stop > start
    ELSE event.start < stop /\ event.stop > start

\* the closure of map: (pattern, pattern_event_length, pattern range) of one
\* pattern event; overflow tells that the u32 subtraction of pattern_offset,
\* pattern_event_length - stop, goes below 0
pattern_range(pattern_event, range, length) ==
    LET pattern_event_length == event_length(pattern_event, length)
        pattern_start_tick ==
            IF pattern_event.start > range.start THEN 0
            ELSE range.start - pattern_event.start
        pattern_stop_tick ==
            IF pattern_event.stop <= range.end THEN pattern_event_length
            ELSE range.end % pattern_event_length
    IN [pattern |-> pattern_event.row, length |-> pattern_event_length,
        range |-> Range(pattern_start_tick, pattern_stop_tick),
        overflow |-> pattern_event_length < pattern_event.stop]

\* Phrase::get_pattern_ranges
get_pattern_ranges(phr, range) ==
    LET overlapping == Filter(phr.pattern_events, LAMBDA pattern_event :
                            overlaps_tick_range(pattern_event, range.start,
                                                range.end))
    IN [ i \in 1 .. Len(overlapping) |->
            pattern_range(overlapping[i], range, phr.length) ]

\* the phrase-local ranges of the model
PhraseRanges ==
    { r \in [start : 0 .. PhraseLength, end : 0 .. PhraseLength] :
        r.start < r.end }

\* one call of get_pattern_ranges.  Where pattern_offset goes below 0 a
\* build with overflow checks panics; a build without them wraps the unused
\* value and returns the Vec
GetPatternRanges ==
    /\ ~ panicked
    /\ \E range \in PhraseRanges :
        LET r == get_pattern_ranges(phrase, range)
        IN /\ query' = [range |-> range, sequence_start |-> 0,
                        nth |-> IF query = NoQuery THEN 1 ELSE 2]
           /\ \/ /\ \E i \in 1 .. Len(r) : r[i].overflow
                 /\ panicked' = TRUE
                 /\ pattern_ranges' = <<>>
              \/ /\ panicked' = FALSE
                 /\ pattern_ranges' =
                        [ i \in 1 .. Len(r) |->
                            [pattern |-> r[i].pattern, length |-> r[i].length,
                             range |-> r[i].range] ]
    /\ UNCHANGED <<events, last, controlVars, tiling, phrase, patterns, notes, outputVars,
                   transport, trip>>

NextRanges == GetPatternRanges

SpecRanges == InitNotes /\ [][NextRanges]_vars

----------------------------------------------------------------------------
(* starting_notes on a phrase of 1000 ticks with one pattern event that     *)
(* loops across the phrase end                                              *)

\* the phrase: pattern 0 is active on [900, 1000) and wraps to [0, 50)
SeamPhrase == [length |-> 1000, pattern_events |-> <<Event(900, 50, 0, 0)>>]

\* pattern 0: a note at tick 920 (key 0) and a note at tick 20 (key 1), with
\* or without a note (key 2) that is held across the pattern's own loop point
SeamNoteVecs ==
    { <<Event(920, 930, 0, 0), Event(20, 30, 1, 0)>>,
      <<Event(920, 930, 0, 0), Event(20, 30, 1, 0), Event(990, 810, 2, 0)>> }

\* the windows: they start every 10 ticks around the first loop seam
SeamWindows ==
    { Range(900 + 10 * i, 900 + 10 * i + n) :
        i \in 0 .. 20, n \in {0, 15, 70, 150} }

InitSeam ==
    /\ events = <<>>
    /\ panicked = FALSE
    /\ last = Op("new", None, NoRange, NoEvent, <<>>, 0)
    /\ phrase = SeamPhrase
    /\ patterns \in { pats \in [PatternIds -> SeamNoteVecs \cup {<<>>}] :
                        /\ pats[0] \in SeamNoteVecs
                        /\ \A p \in PatternIds \ {0} : pats[p] = <<>> }
    /\ query = NoQuery
    /\ notes = <<>>
    /\ playing_notes = <<>>
    /\ cycle = NoCycle
    /\ messages = <<>>
    /\ written = <<>>
    /\ pattern_ranges = <<>>
    /\ transport = NoTransport
    /\ trip = NoTrip
    /\ tiling = NoTiling
    /\ length_call = NoLengthCall
    /\ sequencer = sequencer_new
    /\ buttons = buttons_new
    /\ playable = playable_new(1, 1)

StartingNotesSeam ==
    /\ \E range \in SeamWindows :
        /\ query' = [range |-> range, sequence_start |-> 0,
                      nth |-> IF query = NoQuery THEN 1 ELSE 2]
        /\ notes' = starting_notes(phrase, patterns, range, 0)
    /\ UNCHANGED <<timelineVars, controlVars, tiling, phrase, patterns, outputVars, queryVars>>

NextSeam == StartingNotesSeam

SpecSeam == InitSeam /\ [][NextSeam]_vars

----------------------------------------------------------------------------
(* The process cycle and Instrument::output_midi *)

\* ProcessCycle::ticks
ticks(cyc) == cyc.tick_range.end - cyc.tick_range.start

\* a tick_to_frame that measures the tick from tick 0 instead of from the
\* cycle's start
tick_to_frame_absolute(cyc, tick) ==
    IF ticks(cyc) = 0
    THEN IF tick = 0 THEN 0 ELSE FrameMax
    ELSE (tick * NFrames) \div ticks(cyc)

\* ProcessCycle::tick_to_frame, for a tick that is not before the cycle's
\* start.  The quotient is an f64 that `as u32` truncates; on the ticks and
\* frame counts of the model the f64 result is the exact quotient.  With a
\* tick count of 0 the f64 division gives NaN (0.0 / 0.0) or infinity, which
\* the cast turns into 0 or into u32::MAX (written FrameMax)
tick_to_frame(cyc, tick) ==
    LET tick_in_cycle == tick - cyc.tick_range.start
    IN IF ticks(cyc) = 0
       THEN IF tick_in_cycle = 0 THEN 0 ELSE FrameMax
       ELSE (tick_in_cycle * NFrames) \div ticks(cyc)

\* TimedMessage::new(time, Message::Note(bytes))
TimedMessage(time, bytes) == [time |-> time, bytes |-> bytes]

IsNoteOff(message) == message.bytes[1] = 128

IsNoteOn(message) == message.bytes[1] = 144

\* output_midi with a retain pass that only runs while the transport rolls
output_midi_when_rolling(playing, cyc, starting) ==
    LET stops(note) ==
            cyc.is_rolling /\ range_contains(cyc.tick_range, note.stop)
        retired == Filter(playing, stops)
        kept == Filter(playing, LAMBDA note : ~ stops(note))
        note_off == [ i \in 1 .. Len(retired) |->
                        TimedMessage(tick_to_frame(cyc, retired[i].stop),
                                     <<128, retired[i].note,
                                       retired[i].stop_velocity>>) ]
        note_on == [ i \in 1 .. Len(starting) |->
                        TimedMessage(tick_to_frame(cyc, starting[i].start),
                                     <<144, starting[i].note,
                                       starting[i].start_velocity>>) ]
    IN [playing_notes |-> kept \o starting, messages |-> note_off \o note_on]

\* output_midi with the note-ons placed before the note-offs
output_midi_on_first(playing, cyc, starting) ==
    LET stops(note) == range_contains(cyc.tick_range, note.stop)
        retired == Filter(playing, stops)
        kept == Filter(playing, LAMBDA note : ~ stops(note))
        note_off == [ i \in 1 .. Len(retired) |->
                        TimedMessage(tick_to_frame(cyc, retired[i].stop),
                                     <<128, retired[i].note,
                                       retired[i].stop_velocity>>) ]
        note_on == [ i \in 1 .. Len(starting) |->
                        TimedMessage(tick_to_frame(cyc, starting[i].start),
                                     <<144, starting[i].note,
                                       starting[i].start_velocity>>) ]
    IN [playing_notes |-> kept \o starting, messages |-> note_on \o note_off]

\* Instrument::output_midi up to the hand-over to the port: the sounding
\* notes it keeps and the messages it built, note-offs of the retain pass
\* first, then the note-ons of starting_notes
output_midi(playing, cyc, starting) ==
    LET stops(note) == range_contains(cyc.tick_range, note.stop)
        retired == Filter(playing, stops)
        kept == Filter(playing, LAMBDA note : ~ stops(note))
        note_off == [ i \in 1 .. Len(retired) |->
                        TimedMessage(tick_to_frame(cyc, retired[i].stop),
                                     <<128, retired[i].note,
                                       retired[i].stop_velocity>>) ]
        note_on == [ i \in 1 .. Len(starting) |->
                        TimedMessage(tick_to_frame(cyc, starting[i].start),
                                     <<144, starting[i].note,
                                       starting[i].start_velocity>>) ]
    IN [playing_notes |-> kept \o starting, messages |-> note_off \o note_on]

\* notes_on without the test of is_rolling
notes_on_always(cyc, phr, pats) ==
    starting_notes(phr, pats, cyc.tick_range, 0)

\* the notes a cycle starts: none unless the transport is rolling
\* ("Next notes on", Sequencer::output)
notes_on(cyc, phr, pats) ==
    IF cyc.is_rolling THEN starting_notes(phr, pats, cyc.tick_range, 0)
    ELSE <<>>

\* the MIDI port: the messages of one buffer are written verbatim, in the
\* order in which they were handed over
write_midi(msgs) == msgs

\* the phrases and patterns of the output model: pattern 0 is referenced by
\* one pattern event, which ends at or past the phrase end or loops across it
OutputPhrases ==
    { [length |-> PhraseLength, pattern_events |-> <<e>>] :
        e \in { Event(0, PhraseLength, 0, 0), Event(0, PhraseLength + 1, 0, 0),
                Event(PhraseLength - 1, 1, 0, 0) } }

OutputNoteVecs ==
    { <<Event(0, 1, 0, 0), Event(1, PhraseLength, 1, 0)>>,
      <<Event(0, 2, 0, 0), Event(0, 1, 1, 0)>>,
      <<Event(0, 1, 0, 0), Event(1, 2, 0, 0)>> }

\* the cycles: any tick range of the model, rolling or not (the transport
\* may be stopped, started and repositioned between two callbacks)
Cycles == { [tick_range |-> r, is_rolling |-> b] : r \in Windows, b \in BOOLEAN }

InitOutput ==
    /\ events = <<>>
    /\ panicked = FALSE
    /\ last = Op("new", None, NoRange, NoEvent, <<>>, 0)
    /\ phrase \in OutputPhrases
    /\ patterns \in { pats \in [PatternIds -> OutputNoteVecs \cup {<<>>}] :
                        /\ pats[0] \in OutputNoteVecs
                        /\ \A p \in PatternIds \ {0} : pats[p] = <<>> }
    /\ query = NoQuery
    /\ notes = <<>>
    /\ playing_notes = <<>>
    /\ cycle = NoCycle
    /\ messages = <<>>
    /\ written = <<>>
    /\ pattern_ranges = <<>>
    /\ transport = NoTransport
    /\ trip = NoTrip
    /\ tiling = NoTiling
    /\ length_call = NoLengthCall
    /\ sequencer = sequencer_new
    /\ buttons = buttons_new
    /\ playable = playable_new(1, 1)

\* one process callback: the cycle's starting notes, then output_midi and
\* the port's write
Process ==
    /\ \E cyc \in Cycles :
        LET out == output_midi(playing_notes, cyc, notes_on(cyc, phrase, patterns))
        IN /\ Len(out.playing_notes) <= MaxPlaying
           /\ cycle' = cyc
           /\ playing_notes' = out.playing_notes
           /\ messages' = out.messages
           /\ written' = write_midi(out.messages)
    /\ UNCHANGED <<timelineVars, controlVars, tiling, phrase, patterns, query, notes, queryVars>>

NextOutput == Process

SpecOutput == InitOutput /\ [][NextOutput]_vars

----------------------------------------------------------------------------
(* The process callbacks of a rolling transport *)

\* the cycles that may follow the last one while the transport rolls: each
\* tick range starts where the range before it ended; the first cycle may
\* start anywhere
RollingCycles ==
    { cyc \in Cycles :
        /\ cyc.is_rolling
        /\ cycle # NoCycle => cyc.tick_range.start = cycle.tick_range.end }

\* one process callback of the rolling transport
ProcessRolling ==
    /\ \E cyc \in RollingCycles :
        LET out == output_midi(playing_notes, cyc, notes_on(cyc, phrase, patterns))
        IN /\ Len(out.playing_notes) <= MaxPlaying
           /\ cycle' = cyc
           /\ playing_notes' = out.playing_notes
           /\ messages' = out.messages
           /\ written' = write_midi(out.messages)
    /\ UNCHANGED <<timelineVars, controlVars, tiling, phrase, patterns, query, notes, queryVars>>

NextRolling == ProcessRolling

SpecRolling == InitOutput /\ [][NextRolling]_vars

----------------------------------------------------------------------------
(* ProcessCycle::new and the conversions between frames and ticks *)

\* the transports of the model: frame rates and tempos for which a buffer
\* of NFrames frames spans more ticks than frames (960), fewer (7680) and
\* less than one tick (48000); ticks_per_beat is TICKS_PER_BEAT
FrameRates == {960, 7680, 48000}

BeatsPerMinute == {60, 120}

TransportFrames == 0 .. 2 * NFrames - 1

Positions ==
    [frame : TransportFrames, frame_rate : FrameRates,
     beats_per_minute : BeatsPerMinute]

\* jack's transport states: 0 is stopped, 1 is rolling
TransportStates == {0, 1}

\* ProcessCycle::frame_to_tick with the result truncated by `as u32`:
\* frame / frame_rate / 60 * beats_per_minute * ticks_per_beat.  On the
\* positions of the model the truncated f64 is the floor of the exact
\* quotient
frame_to_tick(pos, frame) ==
    (frame * pos.beats_per_minute * TICKS_PER_BEAT) \div (pos.frame_rate * 60)

\* ProcessCycle::new: the tick range of the buffer that starts at the
\* transport's frame and holds NFrames frames
process_cycle_new(pos, state) ==
    [tick_range |-> Range(frame_to_tick(pos, pos.frame),
                          frame_to_tick(pos, pos.frame + NFrames)),
     is_rolling |-> state = 1]

\* one process callback queries the transport and builds its ProcessCycle
NewCycle ==
    /\ \E pos \in Positions, state \in TransportStates :
        /\ transport' = pos
        /\ cycle' = process_cycle_new(pos, state)
    /\ trip' = NoTrip
    /\ UNCHANGED <<timelineVars, controlVars, tiling, phrase, patterns, query, notes,
                   playing_notes, messages, written, pattern_ranges>>

\* a frame of the cycle's buffer is converted to its tick, and the tick
\* back to a frame of the buffer
RoundTrip ==
    /\ cycle # NoCycle
    /\ transport # NoTransport
    /\ \E frame \in 0 .. NFrames - 1 :
        LET tick == frame_to_tick(transport, transport.frame + frame)
        IN trip' = [frame |-> frame, tick |-> tick,
                    back |-> tick_to_frame(cycle, tick)]
    /\ UNCHANGED <<timelineVars, controlVars, tiling, phrase, patterns, query, notes,
                   outputVars, pattern_ranges, transport>>

NextCycle ==
    \/ NewCycle
    \/ RoundTrip

SpecCycle == Init /\ [][NextCycle]_vars

----------------------------------------------------------------------------
(* Properties of the timeline *)

\* the events of one row, in Vec order
OnRow(evs, index) == Filter(evs, LAMBDA event : is_on_row(event, index))

IsClosed(event) == event.stop # None

HasOpen(evs, index) ==
    \E i \in 1 .. Len(evs) : is_on_row(evs[i], index) /\ evs[i].stop = None

\* two closed events' half-open tick ranges intersect
Intersect(a, b) == a.start < b.stop /\ b.start < a.stop

VecLast(seq) == seq[Len(seq)]

\* the step is an add_complete_event call; its argument is the event pushed
IsAddStep == last'.op = "add_complete_event" /\ vars' # vars

\* C1: after every insert_complete, no two closed events stored on the same
\* row have intersecting tick ranges
C1_NonOverlap ==
    \A i, j \in 1 .. Len(events) :
        (i < j /\ is_on_same_row(events[i], events[j])
         /\ IsClosed(events[i]) /\ IsClosed(events[j]))
        => ~ Intersect(events[i], events[j])

\* a row holds three closed events after an insert_complete that truncated
\* or split a stored event
C1_Witness ==
    /\ last.op = "add_complete_event"
    /\ Len(OnRow(events, last.row)) = 3
    /\ \A i \in 1 .. 3 : IsClosed(OnRow(events, last.row)[i])
    /\ last.split = 1

\* C2: every row holds at most one open event
C2_AtMostOneOpen ==
    \A index \in Rows :
        Cardinality({ i \in 1 .. Len(events) :
            is_on_row(events[i], index) /\ events[i].stop = None }) <= 1

\* C3: close_last_open on a row that holds an open event returns an open
\* event of that row and removes exactly it from the timeline
C3_CloseReturnsOpen ==
    [][ (last'.op = "get_last_event_on_row" /\ HasOpen(events, last'.row))
        => /\ ~ panicked'
           /\ last'.ret.stop = None
           /\ is_on_row(last'.ret, last'.row)
           /\ BagOf(events') (+) SetToBag({last'.ret}) = BagOf(events) ]_vars

\* C4: close_last_open on a row with no open event leaves the timeline as it
\* was and does not abort
C4_CloseWithoutOpenRejected ==
    [][ (last'.op = "get_last_event_on_row" /\ ~ HasOpen(events, last'.row))
        => (events' = events /\ ~ panicked') ]_vars

\* C5: when a row holds the closed event [s,e) and insert_complete adds
\* [a,b) on that row with s < a < b < e, the row then holds exactly
\* [s,a), [a,b) and [b,e)
C5_SplitCorrect ==
    [][ IsAddStep =>
        LET event == VecLast(events')
            row == OnRow(events, event.row)
        IN (Len(row) = 1 /\ IsClosed(row[1])
            /\ row[1].start < event.start /\ event.stop < row[1].stop)
           => BagOf(OnRow(events', event.row))
                = BagOf(<< [row[1] EXCEPT !.stop = event.start],
                           event,
                           [row[1] EXCEPT !.start = event.stop] >>) ]_vars

\* the last insert_complete split the one stored event of its row in two
C5_Witness ==
    /\ last.op = "add_complete_event"
    /\ last.split = 1
    /\ last.removed = <<>>
    /\ LET row == OnRow(events, last.row)
       IN /\ Len(row) = 3
          /\ row[1].stop = row[3].start
          /\ row[3].stop = row[2].start
          /\ row[1].start < row[3].start /\ row[2].stop > row[3].stop

\* C6: insert_complete of [a,b) removes every stored event of the same row
\* whose range lies inside [a,b); when all events of the row lie inside
\* [a,b), the new event is afterwards the only one on the row
C6_ContainmentRemoval ==
    [][ IsAddStep =>
        LET event == VecLast(events')
            Inside(other) == /\ is_on_same_row(other, event)
                             /\ IsClosed(other)
                             /\ event.start <= other.start
                             /\ other.stop <= event.stop
        IN /\ \A i \in 1 .. Len(events) :
                Inside(events[i]) =>
                    \A j \in 1 .. Len(events') - 1 : events'[j] # events[i]
           /\ (\A i \in 1 .. Len(events) :
                    is_on_same_row(events[i], event) => Inside(events[i]))
              => OnRow(events', event.row) = <<event>> ]_vars

\* the last insert_complete removed two stored events and is alone on its row
C6_Witness ==
    /\ last.op = "add_complete_event"
    /\ Len(last.removed) = 2
    /\ OnRow(events, last.row) = <<VecLast(events)>>

\* C7: inserting an event on an empty row leaves exactly that event on the
\* row, and inserting the same event again still leaves exactly one
C7_Idempotent ==
    [][ IsAddStep =>
        LET event == VecLast(events')
            row == OnRow(events, event.row)
        IN /\ row = <<>> => OnRow(events', event.row) = <<event>>
           /\ (last.op = "add_complete_event" /\ row = <<event>>
               /\ VecLast(events) = event)
              => OnRow(events', event.row) = <<event>> ]_vars

\* the last insert_complete found an identical event alone on the row and
\* left one event on the row
C7_Witness ==
    /\ last.op = "add_complete_event"
    /\ events # <<>>
    /\ last.removed = <<VecLast(events)>>
    /\ last.split = 0
    /\ OnRow(events, last.row) = <<VecLast(events)>>

\* C8: remove_starting_in(range, row) removes exactly the events of the row
\* that start in the range: none is left, every other event stays stored
C8_RemoveExactly ==
    [][ last'.op = "remove_events_starting_in" =>
        LET Hit(event) == /\ is_on_row(event, last'.row)
                          /\ range_contains(last'.range, event.start)
        IN /\ ~ panicked'
           /\ ~ contains_events_starting_in(events', last'.range, last'.row)
           /\ BagOf(events')
                = BagOf(Filter(events, LAMBDA event : ~ Hit(event))) ]_vars

----------------------------------------------------------------------------
(* Properties of Instrument::starting_notes *)

\* the phrase-local window of the last query
LocalStart == (query.range.start - query.sequence_start) % phrase.length

LocalStop ==
    LET stop_tick == (query.range.end - query.sequence_start) % phrase.length
    IN IF stop_tick = 0 THEN phrase.length ELSE stop_tick

BaseTick ==
    query.sequence_start
    + ((query.range.start - query.sequence_start) \div phrase.length)
        * phrase.length

\* the active intervals of a pattern event in phrase-local ticks, each with
\* the shift from pattern-local to phrase-local ticks: pattern tick 0 sounds
\* at the event's start, and playback continues across the loop seam
ActiveIntervals(pattern_event) ==
    IF pattern_event.stop < pattern_event.start
    THEN { [start |-> pattern_event.start, end |-> phrase.length,
            shift |-> pattern_event.start],
           [start |-> 0, end |-> pattern_event.stop,
            shift |-> pattern_event.start - phrase.length] }
    ELSE { [start |-> pattern_event.start, end |-> pattern_event.stop,
            shift |-> pattern_event.start] }

\* C9: for a non-empty window, every closed note of a referenced pattern
\* whose shifted start lies both in an active interval of the pattern event
\* and in the phrase-local window [local_start, local_stop) is returned
C9_NoNoteLeftOut ==
    (query # NoQuery /\ query.range.start < query.range.end) =>
        \A i \in 1 .. Len(phrase.pattern_events) :
            LET pattern_event == phrase.pattern_events[i]
                note_events == patterns[pattern_event.row]
            IN \A interval \in ActiveIntervals(pattern_event) :
               \A k \in 1 .. Len(note_events) :
                LET local == note_events[k].start + interval.shift
                IN (/\ note_events[k].stop # None
                    /\ interval.start <= local /\ local < interval.end
                    /\ LocalStart <= local /\ local < LocalStop)
                   => \E j \in 1 .. Len(notes) :
                        /\ notes[j].note = note_events[k].row
                        /\ notes[j].start = BaseTick + local

\* C10: every returned PlayingNoteEvent starts inside the queried window
C10_StartInWindow ==
    query # NoQuery =>
        \A j \in 1 .. Len(notes) :
            /\ query.range.start <= notes[j].start
            /\ notes[j].start < query.range.end

\* C11: on the phrase of 1000 ticks whose pattern event is active on
\* [900, 1000) and wraps to [0, 50), the query of the window [950, 1020) with
\* sequence_start 0 returns the note of tick 920 with absolute start 970 and
\* the note of tick 20 with absolute start 1020
C11_WraparoundScenario ==
    (/\ phrase = SeamPhrase
     /\ query.range = Range(950, 1020)
     /\ query.sequence_start = 0)
    => /\ \E j \in 1 .. Len(notes) : notes[j].note = 0 /\ notes[j].start = 970
       /\ \E j \in 1 .. Len(notes) : notes[j].note = 1 /\ notes[j].start = 1020

----------------------------------------------------------------------------
(* Properties of the output of one cycle *)

NoteOffs(msgs) == Filter(msgs, IsNoteOff)

NoteOns(msgs) == Filter(msgs, IsNoteOn)

\* the key of a note message
Key(message) == message.bytes[2]

\* the sounding notes whose stop tick lies in the tick range of cyc
Stopping(playing, cyc) ==
    Filter(playing, LAMBDA note : range_contains(cyc.tick_range, note.stop))

Lasting(playing, cyc) ==
    Filter(playing, LAMBDA note : ~ range_contains(cyc.tick_range, note.stop))

\* C12: in every cycle, rolling or not, exactly the sounding notes whose
\* stop tick lies in [tick_start, tick_stop) get a note-off (one each, at the
\* frame of the stop tick) and leave the sounding set; every other sounding
\* note stays and gets no note-off
C12_RetireExactly ==
    [][ LET stopping == Stopping(playing_notes, cycle')
            lasting == Lasting(playing_notes, cycle')
            offs == NoteOffs(messages')
        IN /\ BagOf(offs)
                = BagOf([ i \in 1 .. Len(stopping) |->
                            TimedMessage(tick_to_frame(cycle', stopping[i].stop),
                                         <<128, stopping[i].note,
                                           stopping[i].stop_velocity>>) ])
           /\ BagOf(lasting) \sqsubseteq BagOf(playing_notes')
           /\ Len(playing_notes') = Len(lasting) + Len(NoteOns(messages')) ]_vars

\* a stopped cycle has retired one sounding note and kept another
C12_Witness ==
    /\ cycle # NoCycle /\ ~ cycle.is_rolling
    /\ NoteOffs(messages) # <<>>
    /\ playing_notes # <<>>

\* C13: in the messages of one cycle every note-off of the retire pass is
\* placed before every note-on of the start pass, and in the written buffer
\* a note-off precedes a note-on of the same frame
C13_OffBeforeOn ==
    /\ \A i, j \in 1 .. Len(messages) :
        (IsNoteOn(messages[i]) /\ IsNoteOff(messages[j])) => j < i
    /\ \A i, j \in 1 .. Len(written) :
        (/\ IsNoteOn(written[i]) /\ IsNoteOff(written[j])
         /\ written[i].time = written[j].time) => j < i

\* a note ends and a note of the same key starts on the same frame
C13_Witness ==
    \E i, j \in 1 .. Len(written) :
        /\ IsNoteOn(written[i]) /\ IsNoteOff(written[j])
        /\ written[i].time = written[j].time
        /\ Key(written[i]) = Key(written[j])

\* C14: the messages written for one buffer are in non-decreasing frame order
C14_FrameOrder ==
    \A i, j \in 1 .. Len(written) :
        i < j => written[i].time <= written[j].time

\* C15: a cycle in which the transport is not rolling emits no note-on and
\* adds no note to the sounding set
C15_StartOnlyRolling ==
    [][ ~ cycle'.is_rolling
        => /\ NoteOns(messages') = <<>>
           /\ NoteOns(written') = <<>>
           /\ BagOf(playing_notes') \sqsubseteq BagOf(playing_notes) ]_vars

\* a stopped cycle whose window holds note starts, and which retired a note
C15_Witness ==
    /\ cycle # NoCycle /\ ~ cycle.is_rolling
    /\ starting_notes(phrase, patterns, cycle.tick_range, 0) # <<>>
    /\ NoteOffs(written) # <<>>

\* C16: when the rolling transport stops or is repositioned, the sounding
\* notes are flushed: each gets one note-off and the sounding set holds none
\* of them afterwards
C16_FlushOnStop ==
    [][ (/\ cycle.is_rolling
         /\ \/ ~ cycle'.is_rolling
            \/ cycle'.tick_range.start # cycle.tick_range.end)
        => /\ Len(NoteOffs(messages')) = Len(playing_notes)
           /\ Len(playing_notes') = Len(NoteOns(messages')) ]_vars

\* C17: a rolling cycle with an empty tick range starts nothing:
\* starting_notes returned no note for the zero-length window, also when it
\* lies on a multiple of the phrase length, so no note-on is emitted, no note
\* joins the sounding set and no frame is computed by dividing by the tick
\* count 0
C17_EmptyRangeStartsNothing ==
    (cycle.is_rolling /\ ticks(cycle) = 0)
    => /\ NoteOns(messages) = <<>>
       /\ \A i \in 1 .. Len(playing_notes) :
            playing_notes[i].start # cycle.tick_range.start

\* C18: every PlayingNoteEvent that starting_notes returns has start < stop,
\* whether the note event and the pattern event loop or not
C18_StartBeforeStop ==
    \A j \in 1 .. Len(notes) : notes[j].start < notes[j].stop

\* C19: an open note event (no stop) never produces a PlayingNoteEvent:
\* every returned note has the key of a closed note event of a pattern that
\* the phrase references
C19_OpenNeverStarts ==
    \A j \in 1 .. Len(notes) :
        \E i \in 1 .. Len(phrase.pattern_events) :
            LET note_events == patterns[phrase.pattern_events[i].row]
            IN \E k \in 1 .. Len(note_events) :
                /\ note_events[k].stop # None
                /\ note_events[k].row = notes[j].note

\* a query returned the closed note of a pattern and not the open note that
\* starts on the same tick
C19_Witness ==
    /\ notes # <<>>
    /\ \E i \in 1 .. Len(phrase.pattern_events) :
        LET note_events == patterns[phrase.pattern_events[i].row]
        IN \E k, c \in 1 .. Len(note_events) :
            /\ note_events[k].stop = None
            /\ note_events[c].stop # None
            /\ note_events[c].start = note_events[k].start
            /\ \E j \in 1 .. Len(notes) : notes[j].note = note_events[c].row
            /\ \A j \in 1 .. Len(notes) : notes[j].note # note_events[k].row

C21_OnePerKey ==
    \A i, j \in 1 .. Len(playing_notes) :
        playing_notes[i].note = playing_notes[j].note => i = j

----------------------------------------------------------------------------
(* Properties of Pattern::length *)

\* minimum_length * 2^k for the k the ticks of the model can reach
PowerOfTwoMultiples == { minimum_length * 2^k : k \in 0 .. 4 }

\* the length of the pattern in this state
Length == pattern_length(events)

MaxTickOf(evs) == max_tick(evs)

\* C22: the length of a pattern is at least the minimum length and is
\* minimum_length * 2^k for some k >= 0; an empty pattern has exactly the
\* minimum length
C22_PowerOfTwoMultiple ==
    /\ Length >= minimum_length
    /\ Length \in PowerOfTwoMultiples
    /\ events = <<>> => Length = minimum_length

\* a pattern that has grown to four times the minimum length
C22_Witness == events # <<>> /\ Length = 4 * minimum_length

\* C23 as stated: the length is the smallest power-of-two multiple of the
\* minimum length that exceeds the maximum start/stop tick of the events;
\* with a maximum tick of 8000 it is 15360
C23_SmallestExceedingMax ==
    events # <<>> =>
        /\ Length > MaxTickOf(events)
        /\ \A l \in PowerOfTwoMultiples : l > MaxTickOf(events) => Length <= l
        /\ MaxTickOf(events) = 8000 => Length = 15360

\* C23 amended: the length is the smallest power-of-two multiple of the
\* minimum length whose half is not below the maximum start/stop tick of the
\* events; with a maximum tick of 8000 it is 30720
C23_SmallestWithHalfReachingMax ==
    events # <<>> =>
        /\ Length \in PowerOfTwoMultiples
        /\ Length \div 2 >= MaxTickOf(events)
        /\ \A l \in PowerOfTwoMultiples :
              l \div 2 >= MaxTickOf(events) => Length <= l
        /\ MaxTickOf(events) = 8000 => Length = 30720

\* a closed note with stop 8000 is the last tick of the pattern
C23_Witness ==
    /\ MaxTickOf(events) = 8000
    /\ \E i \in 1 .. Len(events) : events[i].stop = 8000

\* C24: the pattern doubles as soon as an event reaches past half of its
\* length: with maximum tick minimum_length/2 + 10 the length is twice, with
\* minimum_length + 10 four times the minimum length; in general half the
\* length is not below the maximum tick, and a quarter of a grown length is
\* below it
C24_DoublesPastHalf ==
    events # <<>> =>
        /\ MaxTickOf(events) = minimum_length \div 2 + 10
            => Length = 2 * minimum_length
        /\ MaxTickOf(events) = minimum_length + 10
            => Length = 4 * minimum_length
        /\ Length \div 2 >= MaxTickOf(events)
        /\ Length > minimum_length => Length \div 4 < MaxTickOf(events)

\* the two notes of the test `length` are stored
C24_Witness ==
    /\ Len(events) = 2
    /\ events[1] = Event(minimum_length \div 2, minimum_length \div 2 + 10, 0, 0)
    /\ events[2] = Event(minimum_length, minimum_length + 10, 0, 0)
    /\ Length = 4 * minimum_length

\* C25: across try_add_starting_event, add_complete_event and
\* remove_events_starting_in the length of a pattern never decreases (only
\* clear_events may reset it; the step of get_last_event_on_row, which takes
\* the open event out to have it closed and added again, is left aside)
C25_GrowsOnly ==
    [][ last'.op \notin {"clear_events", "get_last_event_on_row"}
        => pattern_length(events') >= pattern_length(events) ]_vars

----------------------------------------------------------------------------
(* Properties of Phrase::get_pattern_ranges *)

\* C26: for the query range [a, b) with a < b, every non-looping pattern
\* event [s, e) that overlaps it yields the tuple of its pattern, its length
\* e - s and the pattern range [max(a, s) - s, min(b, e) - s), and a pattern
\* event that does not overlap it yields no tuple (stated of the calls that
\* return)
C26_PatternSubRange ==
    (query # NoQuery /\ ~ panicked) =>
        /\ \A i \in 1 .. Len(phrase.pattern_events) :
            LET event == phrase.pattern_events[i]
                a == query.range.start
                b == query.range.end
                from == IF a > event.start THEN a ELSE event.start
                to == IF b < event.stop THEN b ELSE event.stop
            IN event.start < event.stop =>
                IF event.start < b /\ a < event.stop
                THEN \E j \in 1 .. Len(pattern_ranges) :
                        pattern_ranges[j]
                            = [pattern |-> event.row,
                               length |-> event.stop - event.start,
                               range |-> Range(from - event.start,
                                               to - event.start)]
                ELSE \A j \in 1 .. Len(pattern_ranges) :
                        pattern_ranges[j].pattern # event.row

----------------------------------------------------------------------------
(* Properties of starting_notes on looping pattern events *)

\* C27: a looping pattern event with start s and stop e < s plays its pattern
\* without a break across the phrase end: the closed note of pattern tick p,
\* p below the event's length L - s + e, sounds at phrase tick (s + p) mod L.
\* For a phrase that holds one such event and a non-empty window that does
\* not cross the phrase end, the returned notes are those whose phrase tick
\* lies in the local window
C27_ContinuousAcrossSeam ==
    (/\ query # NoQuery
     /\ query.range.start < query.range.end
     /\ LocalStart < LocalStop
     /\ Len(phrase.pattern_events) = 1
     /\ phrase.pattern_events[1].stop < phrase.pattern_events[1].start)
    => LET event == phrase.pattern_events[1]
           note_events == patterns[event.row]
           played == phrase.length - event.start + event.stop
           sounding == { k \in 1 .. Len(note_events) :
                            /\ note_events[k].stop # None
                            /\ note_events[k].start < played
                            /\ LET local == (event.start + note_events[k].start)
                                                % phrase.length
                               IN LocalStart <= local /\ local < LocalStop }
       IN { <<notes[j].note, notes[j].start>> : j \in 1 .. Len(notes) }
            = { <<note_events[k].row,
                  BaseTick + ((event.start + note_events[k].start)
                                 % phrase.length)>> : k \in sounding }

\* C28: the window mapping of starting_notes: for a non-empty window
\* [start, end) that does not cross the phrase end, the local window
\* satisfies 0 <= local_start < local_stop <= L and lies, in iteration
\* `iteration`, exactly on the absolute window; a window that ends on the
\* phrase end belongs to the iteration that ends there
NonCrossing ==
    /\ query # NoQuery
    /\ query.range.start < query.range.end
    /\ (query.range.start - query.sequence_start) \div phrase.length
         = (query.range.end - 1 - query.sequence_start) \div phrase.length

C28_WindowMapping ==
    NonCrossing
    => LET window == phrase_window(query.range, query.sequence_start,
                                   phrase.length)
           base == query.sequence_start + window.iteration * phrase.length
       IN /\ 0 <= window.phrase_start_tick
          /\ window.phrase_start_tick < window.phrase_stop_tick
          /\ window.phrase_stop_tick <= phrase.length
          /\ base + window.phrase_start_tick = query.range.start
          /\ base + window.phrase_stop_tick = query.range.end

\* a window of the second iteration that ends exactly on the phrase end
C28_Witness ==
    /\ NonCrossing
    /\ (query.range.end - query.sequence_start) % phrase.length = 0
    /\ (query.range.start - query.sequence_start) \div phrase.length = 1
    /\ notes # <<>>

----------------------------------------------------------------------------
(* Properties of the cycle's conversions *)

\* C29: cycle round trip: a frame of the buffer, converted to its tick
\* (truncated toward zero) and back with tick_to_frame, is recovered within
\* one frame, for every tempo and frame rate
C29_RoundTrip ==
    trip # NoTrip
    => /\ trip.back - trip.frame <= 1
       /\ trip.frame - trip.back <= 1

----------------------------------------------------------------------------
(* Properties of a rolling transport *)

\* C30: while the transport rolls over contiguous cycles, every note that
\* was started is retired, with its note-off, in the cycle whose tick range
\* contains its stop tick, also when that is the cycle in which it starts:
\* after a cycle, no note of the sounding set has a stop tick before the
\* cycle's end, so no note stays in the sounding set forever
C30_RetiredByStop ==
    cycle # NoCycle
    => \A i \in 1 .. Len(playing_notes) :
          playing_notes[i].stop >= cycle.tick_range.end

----------------------------------------------------------------------------
(* Properties of starting_notes over consecutive windows *)

\* the occurrences of closed notes on key `key` whose absolute start is
\* `tick`: one for each pattern event, active interval and note event
Occurrences(key, tick) ==
    LET local == (tick - query.sequence_start) % phrase.length
    IN { occ \in [event : 1 .. Len(phrase.pattern_events),
                  shift : -PhraseLength .. PhraseLength + MaxTick,
                  note_event : 1 .. MaxEvents] :
           LET pattern_event == phrase.pattern_events[occ.event]
               note_events == patterns[pattern_event.row]
           IN /\ occ.note_event <= Len(note_events)
              /\ note_events[occ.note_event].stop # None
              /\ note_events[occ.note_event].row = key
              /\ note_events[occ.note_event].start + occ.shift = local
              /\ \E interval \in ActiveIntervals(pattern_event) :
                    /\ interval.shift = occ.shift
                    /\ interval.start <= local /\ local < interval.end }

\* C31: over windows that tile a tick interval without gap or overlap,
\* every closed note occurrence whose absolute start lies in the interval
\* is returned by exactly one of the starting_notes calls: for every key
\* and tick of the interval, as many notes were returned as there are
\* occurrences
C31_EachOccurrenceOnce ==
    tiling # NoTiling
    => \A tick \in tiling.range.start .. tiling.range.end - 1 :
       \A key \in Rows :
          Cardinality({ j \in 1 .. Len(tiling.started) :
                          /\ tiling.started[j].note = key
                          /\ tiling.started[j].start = tick })
            = Cardinality(Occurrences(key, tick))

----------------------------------------------------------------------------
(* Frame properties of the timeline operations *)

\* C32: try_add_starting_event, get_last_event_on_row, add_complete_event
\* and remove_events_starting_in applied to a row leave the events of every
\* other row as they were, whatever their order in the Vec: none added,
\* none removed, none changed
C32_OtherRowsUnchanged ==
    [][ last'.op \in {"try_add_starting_event", "get_last_event_on_row",
                      "add_complete_event", "remove_events_starting_in"}
        => \A index \in Rows \ {last'.row} :
              BagOf(OnRow(events', index)) = BagOf(OnRow(events, index)) ]_vars

----------------------------------------------------------------------------
(* Properties of Phrase::set_length *)

\* C33: a new Phrase has a length of 4 bars, 30720 ticks; set_length(L)
\* sets the length to L and cuts short the closed events that stop past
\* it: afterwards every closed event has stop <= L, an event that did not
\* stop past L keeps its stop, and the number of events, their rows
\* (the patterns they refer to), their payloads, their starts and the open
\* events are as before
C33_SetLength ==
    /\ [](last.op = "new" => phrase.length = 30720)
    /\ [][ last'.op = "set_length"
           => /\ phrase'.length = last'.range.end
              /\ Len(phrase'.pattern_events) = Len(phrase.pattern_events)
              /\ \A i \in 1 .. Len(phrase.pattern_events) :
                    LET before == phrase.pattern_events[i]
                        after == phrase'.pattern_events[i]
                    IN /\ after.row = before.row
                       /\ after.payload = before.payload
                       /\ after.start = before.start
                       /\ before.stop = None => after.stop = None
                       /\ before.stop # None =>
                             /\ after.stop # None
                             /\ after.stop <= phrase'.length
                             /\ before.stop <= phrase'.length
                                   => after.stop = before.stop ]_vars

\* a set_length that cut an event short next to an open event
C33_Witness ==
    /\ last.op = "set_length"
    /\ last.removed # <<>>
    /\ \E i \in 1 .. Len(phrase.pattern_events) :
          phrase.pattern_events[i].stop = None
    /\ \E i \in 1 .. Len(phrase.pattern_events) :
          phrase.pattern_events[i].stop = phrase.length

\* C34: shortening a phrase never turns a non-looping pattern event into a
\* looping or an empty one: a closed event with start < stop before
\* set_length(L) has start < stop <= L after it
C34_StaysNonLooping ==
    [][ last'.op = "set_length"
        => \A i \in 1 .. Len(phrase.pattern_events) :
              LET before == phrase.pattern_events[i]
                  after == phrase'.pattern_events[i]
              IN (before.stop # None /\ before.start < before.stop)
                 => /\ after.start < after.stop
                    /\ after.stop <= phrase'.length ]_vars

----------------------------------------------------------------------------
(* Properties of the frame offsets of a cycle's messages *)

\* the notes the last cycle started: output_midi appended them to
\* playing_notes, one for each note-on of the cycle
StartedInCycle ==
    SubSeq(playing_notes,
           Len(playing_notes) - Len(NoteOns(messages)) + 1, Len(playing_notes))

\* C35: every note-on and note-off emitted in a cycle with a non-empty
\* tick range carries a frame offset inside the buffer: tick_to_frame maps
\* every tick of [tick_start, tick_stop) to a frame of [0, NFrames) and is
\* non-decreasing in the tick, and the ticks it is applied to, the stop
\* ticks of the retired notes and the start ticks of the started notes,
\* are ticks of the cycle's range
C35_FrameInBuffer ==
    (cycle # NoCycle /\ cycle.tick_range.start < cycle.tick_range.end)
    => /\ \A i \in 1 .. Len(messages) :
             0 <= messages[i].time /\ messages[i].time < NFrames
       /\ \A tick \in cycle.tick_range.start .. cycle.tick_range.end - 1 :
             /\ 0 <= tick_to_frame(cycle, tick)
             /\ tick_to_frame(cycle, tick) < NFrames
             /\ tick > cycle.tick_range.start
                   => tick_to_frame(cycle, tick - 1) <= tick_to_frame(cycle, tick)
       /\ \A i \in 1 .. Len(StartedInCycle) :
             /\ range_contains(cycle.tick_range, StartedInCycle[i].start)
             /\ \E j \in 1 .. Len(messages) :
                   /\ IsNoteOn(messages[j])
                   /\ messages[j].time
                        = tick_to_frame(cycle, StartedInCycle[i].start)

\* a cycle of more than one tick that retires a note and starts a note
\* after the first frame of its buffer
C35_Witness ==
    /\ cycle # NoCycle
    /\ cycle.tick_range.start + 1 < cycle.tick_range.end
    /\ NoteOffs(messages) # <<>>
    /\ \E j \in 1 .. Len(messages) :
          IsNoteOn(messages[j]) /\ messages[j].time > 0

----------------------------------------------------------------------------
(* Properties of Pattern::length on 32-bit ticks *)

\* the maximum tick of the note event of the last Pattern::length call
MaxTick32 ==
    IF length_call.stop = None32 THEN length_call.start
    ELSE u32_max(length_call.start, length_call.stop)

\* C36: Pattern::length returns for every note event with 32-bit ticks, and
\* its result is not below the maximum event tick: no doubling overflows
\* the 32-bit length and the loop ends
C36_LengthReturns ==
    length_call # NoLengthCall
    => /\ length_call.status = "returned"
       /\ ~ u32_lt(length_call.length, MaxTick32)

----------------------------------------------------------------------------
(* Properties of the Sequencer's queued sequence *)

\* the last cycle lets a queued sequence take over from the Sequencer
\* `seq`: the transport rolls, a sequence is queued, and the cycle crosses
\* the end of the playing sequence or the playing sequence has no phrase
TakeOverCycle(seq, cyc) ==
    LET seq_ticks == sequence_ticks(seq, seq.sequence_playing)
    IN /\ cyc.is_rolling
       /\ seq.sequence_queued # None
       /\ \/ seq_ticks = None
          \/ /\ seq_ticks # None
             /\ cyc.tick_range.start % seq_ticks > cyc.tick_range.end % seq_ticks

\* C37: output changes the playing sequence only to the queued sequence
\* and only in a cycle that crosses the end of the playing sequence, or
\* when the playing sequence has no phrase; the takeover sets
\* sequence_queued to None; in every other cycle output leaves
\* sequence_playing and sequence_queued as they were
C37_QueuedTakesOver ==
    [][ last'.op = "output"
        => /\ sequencer'.sequence_playing # sequencer.sequence_playing
                => /\ TakeOverCycle(sequencer, cycle')
                   /\ sequencer'.sequence_playing = sequencer.sequence_queued
                   /\ sequencer'.sequence_queued = None
           /\ sequencer'.sequence_queued # sequencer.sequence_queued
                => /\ TakeOverCycle(sequencer, cycle')
                   /\ sequencer'.sequence_playing = sequencer.sequence_queued
                   /\ sequencer'.sequence_queued = None
           /\ ~ TakeOverCycle(sequencer, cycle')
                => /\ sequencer'.sequence_playing = sequencer.sequence_playing
                   /\ sequencer'.sequence_queued = sequencer.sequence_queued
       ]_vars

\* a queued sequence with phrases took over at the end of the playing one
C37_Witness ==
    /\ last.op = "output"
    /\ cycle.is_rolling
    /\ cycle.tick_range.start < default_length
    /\ cycle.tick_range.end > default_length
    /\ sequencer.sequence_playing = 1
    /\ sequencer.sequence_queued = None
    /\ sequencer.has_phrases[0]

----------------------------------------------------------------------------
(* Properties of Buttons *)

\* a record of an earlier press of the button (channel, note) that is
\* still held, or was released less than DOUBLE_PRESS_TICKS before `tick`
RecentlyPressed(record, tick, channel, note) ==
    /\ record.channel = channel
    /\ record.note = note
    /\ record.end = None \/ tick - record.end < 960

\* C38: press(start, channel, note) returns true exactly when a recorded
\* earlier press of the same channel and note is still held or was
\* released less than DOUBLE_PRESS_TICKS (960) ticks before start, whatever
\* other presses were recorded in between; the records released longer ago
\* are discarded, the others are kept and the new press is recorded
C38_DoublePress ==
    [][ buttons'.event.op = "press" /\ buttons' # buttons
        => LET event == buttons'.event
               recent(record) ==
                    record.end = None \/ event.tick - record.end < 960
           IN /\ buttons'.is_double_pressed
                    = (\E i \in 1 .. Len(buttons.pressed) :
                          RecentlyPressed(buttons.pressed[i], event.tick,
                                          event.channel, event.note))
              /\ buttons'.pressed
                    = Filter(buttons.pressed, recent)
                        \o << PressedButton(event.tick, event.channel,
                                            event.note) >> ]_vars

\* C39: release never fails: it finds a record of the released button
C39_ReleaseFindsRecord ==
    buttons.event.op = "release" => ~ panicked

----------------------------------------------------------------------------
(* Properties of Playable *)

\* the view of a playable: everything but the record of the last call
View(p) == [minimum_ticks |-> p.minimum_ticks, ticks |-> p.ticks,
            zoom |-> p.zoom, offset |-> p.offset]

\* C40: after any sequence of change_zoom, change_offset and change_length
\* calls on a playable of 1, 2, 4 or 8 times its minimum length the zoom is
\* one of 1, 2, 4, 8 and the offset is smaller than the zoom;
\* change_offset and change_length return false for the values they
\* reject (an offset outside 0 .. zoom - 1, a length modifier other than
\* 1, 2, 4, 8), true for the others, and change nothing when they return
\* false
C40_ViewInsidePattern ==
    /\ [](playable.zoom \in {1, 2, 4, 8} /\ playable.offset < playable.zoom)
    /\ [][ LET call == playable'.call
           IN /\ call.op = "change_offset"
                    => call.ret = (/\ playable.offset + call.arg >= 0
                                   /\ playable.offset + call.arg < playable.zoom)
              /\ call.op = "change_length"
                    => call.ret = (call.arg \in {1, 2, 4, 8})
              /\ ~ call.ret => View(playable') = View(playable) ]_vars

====
